---------------------------- MODULE Spec2Model ----------------------------
(***************************************************************************)
(* A model of toggl-sync: the worklog line formatter/parser/merger         *)
(* (formatter.py), the entry locator (api/github.py) and the reconciler    *)
(* sync_toggl_to_github (sync.py) run against a versioned document store.  *)
(*                                                                         *)
(* Text is modelled character by character: a Python str is a sequence of  *)
(* one-character strings, and every regular expression of the source is a  *)
(* scanner over such sequences.  Positions are 1-based; an "end" position  *)
(* is exclusive, so Len(s)+1 is the end of the text.                       *)
(***************************************************************************)
EXTENDS Integers, Sequences, FiniteSets, TLC

VARIABLES
    (* formatter.py: inputs and results of format_entry / parse_entry /   *)
    (* merge_entries                                                      *)
    fpc,        \* "format" | "formatted" | "parsed" | "line" | "line_parsed" | "merge" | "merged"
    fe_in,      \* [date, hours, descriptions, has_running_entry]
    fe_line,    \* result of format_entry(fe_in)
    fe_parsed,  \* result of parse_entry(fe_line)
    mg_in,      \* [existing_entry, new_entry]
    mg_out      \* result of merge_entries(mg_in)

fvars == <<fpc, fe_in, fe_line, fe_parsed, mg_in, mg_out>>

VARIABLES
    (* find_entry_for_date, the description filter of sync.py and          *)
    (* calculate_daily_hours called on their own                           *)
    upc,        \* "find" | "found" | "update" | "updated" | "dedup" |
                \* "deduped" | "hours" | "summed"
    find_in,    \* [content, date]
    find_out,   \* result of find_entry_for_date(find_in)
    descs_in,   \* the descriptions of a day, in order
    descs_out,  \* the descriptions kept
    entries_in, \* the time entries of a day
    hours_out,  \* result of calculate_daily_hours(entries_in)
    new_entry_in,    \* the new_entry given to update_or_create_entry
    updated_content  \* result of update_or_create_entry(find_in, new_entry_in)

uvars == <<upc, find_in, find_out, descs_in, descs_out, entries_in, hours_out,
           new_entry_in, updated_content>>

VARIABLES
    (* scheduler.py: start_scheduler and the job of the BackgroundScheduler *)
    spc,                    \* the main thread: "init" | "started" | "syncing" | "sleeping" | "shutdown" | "stopped"
    sclock,                 \* minutes since start_scheduler was called
    sync_interval_minutes,  \* config.sync_interval_minutes
    next_run_time,          \* when the interval trigger fires next
    job_instances,          \* executions of the job running in the scheduler's thread pool
    skipped                 \* firings the scheduler has skipped

cvars == <<spc, sclock, sync_interval_minutes, next_run_time, job_instances, skipped>>

VARIABLES
    (* api/toggl.py: get_time_entries against a server                     *)
    ppc,               \* "call" | "request" | "returned" | "raised" | "reports"
    timezone,          \* config.timezone, the name of the zone
    server,            \* [entries, kind, page]: what the server holds and how it answers
    range_in,          \* [start_date, end_date]: the arguments of the call
    range_start,       \* start_date after the defaults
    current_end_date,
    fetched_entries,   \* the local all_entries of get_time_entries
    seen_entry_ids,
    http               \* the requests sent and their answers, in order

pvars == <<ppc, timezone, server, range_in, range_start, current_end_date, fetched_entries,
           seen_entry_ids, http>>

-----------------------------------------------------------------------------
(* Characters and character classes (Python re, str patterns).  A text is  *)
(* a sequence of characters; a character is a one-character string, or,    *)
(* for a code point that cannot be written in a string here, its name      *)
(* "U+XXXX".                                                               *)

NL == "\n"
SP == " "

DigitChars == <<"0", "1", "2", "3", "4", "5", "6", "7", "8", "9">>

\* The name of the code point n: "U+" and its number in at least four
\* hexadecimal digits
HexChars == <<"0", "1", "2", "3", "4", "5", "6", "7", "8", "9",
              "A", "B", "C", "D", "E", "F">>

RECURSIVE Hex(_, _)
Hex(n, width) ==
    IF n = 0 /\ width <= 0 THEN ""
    ELSE Hex(n \div 16, width - 1) \o HexChars[(n % 16) + 1]

\* chr(n) for the code points used here: the ASCII digits are written as
\* they are, the other code points by name
Chr(n) == IF n >= 48 /\ n <= 57 THEN DigitChars[n - 47] ELSE "U+" \o Hex(n, 4)

\* The decimal digits of Unicode (category Nd): what \d matches in a str
\* pattern, and what int() and float() read as digits.  They come in runs of
\* ten code points in the order of their values 0..9; these are the code
\* points of the zeros.
DecimalDigitZeros ==
    {\h0030, \h0660, \h06F0, \h07C0, \h0966, \h09E6, \h0A66, \h0AE6,
     \h0B66, \h0BE6, \h0C66, \h0CE6, \h0D66, \h0DE6, \h0E50, \h0ED0,
     \h0F20, \h1040, \h1090, \h17E0, \h1810, \h1946, \h19D0, \h1A80,
     \h1A90, \h1B50, \h1BB0, \h1C40, \h1C50, \hA620, \hA8D0, \hA900,
     \hA9D0, \hA9F0, \hAA50, \hABF0, \hFF10, \h104A0, \h10D30, \h11066,
     \h110F0, \h11136, \h111D0, \h112F0, \h11450, \h114D0, \h11650, \h116C0,
     \h11730, \h118E0, \h11950, \h11C50, \h11D50, \h11DA0, \h16A60, \h16AC0,
     \h16B50, \h1D7CE, \h1D7D8, \h1D7E2, \h1D7EC, \h1D7F6, \h1E140, \h1E2F0,
     \h1E950, \h1FBF0}

\* \d
Digit == {Chr(z + i) : z \in DecimalDigitZeros, i \in 0..9}

\* The digits str(), strftime and strptime's month and day fields know
AsciiDigit == {DigitChars[i] : i \in 1..10}

\* [A-Za-z]
Alpha ==
    {"a","b","c","d","e","f","g","h","i","j","k","l","m",
     "n","o","p","q","r","s","t","u","v","w","x","y","z",
     "A","B","C","D","E","F","G","H","I","J","K","L","M",
     "N","O","P","Q","R","S","T","U","V","W","X","Y","Z"}

\* \s, and the characters str.strip() removes
Space ==
    {"\t", "\n", "U+000B", "\f", "\r", "U+001C", "U+001D", "U+001E",
     "U+001F", " ", "U+0085", "U+00A0", "U+1680", "U+2000", "U+2001",
     "U+2002", "U+2003", "U+2004", "U+2005", "U+2006", "U+2007", "U+2008",
     "U+2009", "U+200A", "U+2028", "U+2029", "U+202F", "U+205F", "U+3000"}

\* The value of every decimal digit
DigitValues ==
    [c \in Digit |-> CHOOSE i \in 0..9 : \E z \in DecimalDigitZeros : Chr(z + i) = c]

DigitVal(c) == DigitValues[c]

\* str(n) for an int n >= 0
RECURSIVE IntToStr(_)
IntToStr(n) ==
    IF n < 10 THEN <<DigitChars[n + 1]>>
    ELSE IntToStr(n \div 10) \o <<DigitChars[(n % 10) + 1]>>

\* int(s) for a string of digits
RECURSIVE StrToInt(_)
StrToInt(s) ==
    IF Len(s) = 0 THEN 0
    ELSE 10 * StrToInt(SubSeq(s, 1, Len(s) - 1)) + DigitVal(s[Len(s)])


\* The least element of a non-empty set of positions
MinOf(S) == CHOOSE x \in S : \A y \in S : x <= y

\* The first of the positions in S, or the position after the text s
FirstOr(S, s, i) ==
    IF S # {} THEN MinOf(S) ELSE IF i > Len(s) THEN i ELSE Len(s) + 1

\* The first position >= i whose character is not in class C (a greedy C*).
SkipClass(s, i, C) == FirstOr({k \in i..Len(s) : s[k] \notin C}, s, i)

\* The first position >= i holding the character c, or Len(s)+1.
FindChar(s, i, c) == FirstOr({k \in i..Len(s) : s[k] = c}, s, i)

\* Greedy C{0,n}: at most n characters of class C from i.
RECURSIVE SkipUpTo(_, _, _, _)
SkipUpTo(s, i, C, n) ==
    IF n > 0 /\ i <= Len(s) /\ s[i] \in C THEN SkipUpTo(s, i + 1, C, n - 1) ELSE i

\* The literal lit occurs in s at position i.
StartsAt(s, i, lit) ==
    /\ i >= 1
    /\ i + Len(lit) - 1 <= Len(s)
    /\ Len(lit) = 0 \/ s[i] = lit[1]
    /\ SubSeq(s, i, i + Len(lit) - 1) = lit

\* s.endswith(lit)
EndsWith(s, lit) == StartsAt(s, Len(s) - Len(lit) + 1, lit)

\* s[i:] as a slice from the 1-based position i
From(s, i) == SubSeq(s, i, Len(s))

\* s.lstrip() / s.rstrip() / s.strip()
RECURSIVE RStripEnd(_, _)
RStripEnd(s, j) == IF j >= 1 /\ s[j] \in Space THEN RStripEnd(s, j - 1) ELSE j

Strip(s) == SubSeq(s, SkipClass(s, 1, Space), RStripEnd(s, Len(s)))

\* sep.join(parts)
RECURSIVE Join(_, _)
Join(parts, sep) ==
    IF Len(parts) = 0 THEN <<>>
    ELSE IF Len(parts) = 1 THEN parts[1]
    ELSE parts[1] \o sep \o Join(Tail(parts), sep)

\* s.split(c) for a one-character separator c
RECURSIVE SplitOn(_, _)
SplitOn(s, c) ==
    LET hit == {i \in 1..Len(s) : s[i] = c}
    IN  IF hit = {} THEN <<s>>
        ELSE LET i == CHOOSE k \in hit : \A m \in hit : k <= m
             IN  <<SubSeq(s, 1, i - 1)>> \o SplitOn(From(s, i + 1), c)

-----------------------------------------------------------------------------
(* Calendar (datetime.date of the Python standard library).                *)

IsLeap(y) == (y % 4 = 0) /\ ((y % 100 # 0) \/ (y % 400 = 0))

DaysInMonth(y, m) ==
    IF m = 2 THEN (IF IsLeap(y) THEN 29 ELSE 28)
    ELSE IF m \in {4, 6, 9, 11} THEN 30 ELSE 31

\* datetime(y, m, d) does not raise ValueError
ValidDate(y, m, d) ==
    /\ y >= 1 /\ y <= 9999
    /\ m >= 1 /\ m <= 12
    /\ d >= 1 /\ d <= DaysInMonth(y, m)

RECURSIVE DaysBeforeMonth(_, _)
DaysBeforeMonth(y, m) ==
    IF m = 1 THEN 0 ELSE DaysBeforeMonth(y, m - 1) + DaysInMonth(y, m - 1)

\* date.toordinal(): 1 for 0001-01-01
Ordinal(date) ==
    LET p == date.y - 1
    IN  p * 365 + (p \div 4) - (p \div 100) + (p \div 400)
        + DaysBeforeMonth(date.y, date.m) + date.d

\* date.weekday(): Monday is 0
Weekday(date) == (Ordinal(date) + 6) % 7

\* calendar.day_name[k][:3]
DayAbbr ==
    << <<"M","o","n">>, <<"T","u","e">>, <<"W","e","d">>, <<"T","h","u">>,
       <<"F","r","i">>, <<"S","a","t">>, <<"S","u","n">> >>

\* date.min and date.max
DateMin == [y |-> 1, m |-> 1, d |-> 1]
DateMax == [y |-> 9999, m |-> 12, d |-> 31]

\* date - timedelta(days=1) raises OverflowError below date.min
PrevDayRaises(date) == date = DateMin

\* date - timedelta(days=1)
PrevDay(date) ==
    IF date.d > 1 THEN [date EXCEPT !.d = date.d - 1]
    ELSE IF date.m > 1
         THEN [y |-> date.y, m |-> date.m - 1, d |-> DaysInMonth(date.y, date.m - 1)]
         ELSE [y |-> date.y - 1, m |-> 12, d |-> 31]

\* date + timedelta(days=1)
NextDay(date) ==
    IF date.d < DaysInMonth(date.y, date.m) THEN [date EXCEPT !.d = date.d + 1]
    ELSE IF date.m < 12 THEN [y |-> date.y, m |-> date.m + 1, d |-> 1]
    ELSE [y |-> date.y + 1, m |-> 1, d |-> 1]

\* A rendering with zero-padded month and day, strftime("%Y-%m-%d")
DateStrPadded(date) ==
    IntToStr(date.y) \o <<"-">>
    \o (IF date.m < 10 THEN <<"0">> ELSE <<>>) \o IntToStr(date.m) \o <<"-">>
    \o (IF date.d < 10 THEN <<"0">> ELSE <<>>) \o IntToStr(date.d)

\* date.strftime("%Y-%-m-%-d"): glibc renders %Y without padding
DateStr(date) ==
    IntToStr(date.y) \o <<"-">> \o IntToStr(date.m) \o <<"-">> \o IntToStr(date.d)

-----------------------------------------------------------------------------
(* Hours.  A Python float is modelled by the decimal that repr() shows for *)
(* it: its significant digits and the position of the decimal point, as    *)
(* the float-to-string conversion of CPython returns them.  Every float    *)
(* has one such decimal, the shortest that float() takes back to it.       *)

\* The digits of a natural number
RECURSIVE DigitsOf(_)
DigitsOf(n) == IF n < 10 THEN <<n>> ELSE Append(DigitsOf(n \div 10), n % 10)

\* How many zeros ds starts with
LeadingZeros(ds) ==
    IF \A k \in 1..Len(ds) : ds[k] = 0 THEN Len(ds)
    ELSE (CHOOSE k \in 1..Len(ds) : ds[k] # 0 /\ \A j \in 1..(k - 1) : ds[j] = 0) - 1

\* ds without the zeros it ends with
DropTrailingZeros(ds) ==
    IF \A k \in 1..Len(ds) : ds[k] = 0 THEN <<>>
    ELSE SubSeq(ds, 1, CHOOSE k \in 1..Len(ds) :
                           ds[k] # 0 /\ \A j \in (k + 1)..Len(ds) : ds[j] = 0)

\* The float 0.0
FloatZero == [digits |-> <<>>, decpt |-> 0]

\* float("inf"), what float() gives from 2^1024 - 2^970 on
FloatInf == [digits |-> <<>>, decpt |-> 1024]

\* The float with the decimal digits ds, point of them before the decimal
\* point: the value 0.d1d2...dn * 10^decpt with d1 and dn not zero
Float(ds, point) ==
    LET lead == LeadingZeros(ds)
        sig  == DropTrailingZeros(SubSeq(ds, lead + 1, Len(ds)))
    IN  IF sig = <<>> THEN FloatZero
        ELSE [digits |-> sig, decpt |-> point - lead]

\* The float n / 10^places for a natural number n
Decimal(n, places) == Float(DigitsOf(n), Len(DigitsOf(n)) - places)

\* a < b for two digit sequences read as fractions 0.d1d2...
DigitsBelow(a, b) ==
    \E k \in 1..Len(b) :
        /\ \A i \in 1..(k - 1) : i <= Len(a) /\ a[i] = b[i]
        /\ IF k <= Len(a) THEN a[k] < b[k] ELSE TRUE

\* a < b for two floats
Less(a, b) ==
    IF b = FloatZero THEN FALSE
    ELSE IF a = FloatZero THEN TRUE
    ELSE \/ a.decpt < b.decpt
         \/ a.decpt = b.decpt /\ DigitsBelow(a.digits, b.digits)

DigitText(ds) == [k \in 1..Len(ds) |-> DigitChars[ds[k] + 1]]

Zeros(n) == [k \in 1..n |-> "0"]

\* repr of a float in exponent notation: d.ddde+XX, the exponent with two
\* digits at least
ExponentRepr(v) ==
    LET exp == v.decpt - 1
        mag == IF exp < 0 THEN 0 - exp ELSE exp
    IN  <<DigitChars[v.digits[1] + 1]>>
        \o (IF Len(v.digits) > 1
            THEN <<".">> \o DigitText(Tail(v.digits)) ELSE <<>>)
        \o <<"e", IF exp < 0 THEN "-" ELSE "+">>
        \o (IF mag < 10 THEN <<"0">> ELSE <<>>) \o IntToStr(mag)

\* f"{hours}" for a float: its repr, with a decimal point and one
\* fractional digit at least, in exponent notation from 1e16 on and below 1e-4
FloatRepr(v) ==
    IF v = FloatZero THEN <<"0", ".", "0">>
    ELSE IF v = FloatInf THEN <<"i", "n", "f">>
    ELSE IF v.decpt > 16 \/ v.decpt < 0 - 3 THEN ExponentRepr(v)
    ELSE IF v.decpt <= 0
         THEN <<"0", ".">> \o Zeros(0 - v.decpt) \o DigitText(v.digits)
    ELSE IF v.decpt >= Len(v.digits)
         THEN DigitText(v.digits) \o Zeros(v.decpt - Len(v.digits)) \o <<".", "0">>
    ELSE DigitText(SubSeq(v.digits, 1, v.decpt)) \o <<".">>
         \o DigitText(SubSeq(v.digits, v.decpt + 1, Len(v.digits)))

\* A decimal written out, [ds, sc]: the natural number with the digits ds
\* divided by 10^sc.  The next operators compute with such decimals of any
\* length.

\* The digits of half a natural number, a last digit 5 added when it is
\* odd: a digit takes over ten from an odd digit before it
HalveDigits(ds) ==
    [i \in 1..Len(ds) |->
        (ds[i] + (IF i > 1 /\ ds[i - 1] % 2 = 1 THEN 10 ELSE 0)) \div 2]
    \o (IF ds[Len(ds)] % 2 = 1 THEN <<5>> ELSE <<>>)

\* x / 2
Halve(x) ==
    [ds |-> HalveDigits(x.ds),
     sc |-> IF x.ds[Len(x.ds)] % 2 = 1 THEN x.sc + 1 ELSE x.sc]

\* The digits of twice a natural number: a digit takes one over from a
\* digit 5 or more after it
DoubleDigits(ds) ==
    (IF Len(ds) > 0 /\ ds[1] >= 5 THEN <<1>> ELSE <<>>)
    \o [i \in 1..Len(ds) |->
           (2 * ds[i] + (IF i < Len(ds) /\ ds[i + 1] >= 5 THEN 1 ELSE 0)) % 10]

\* 2 * x
Double(x) == [ds |-> DoubleDigits(x.ds), sc |-> x.sc]

\* x * 2^e, in two halves; nothing to do for a decimal without digits
RECURSIVE TimesPow2(_, _)
TimesPow2(x, e) ==
    IF e = 0 \/ x.ds = <<>> THEN x
    ELSE IF e = 1 THEN Double(x)
    ELSE IF e = 0 - 1 THEN Halve(x)
    ELSE TimesPow2(TimesPow2(x, e \div 2), e - (e \div 2))

\* ds + 1 and ds - 1 for the digits of a natural number (ds > 0 for the latter)
RECURSIVE Successor(_)
Successor(ds) ==
    IF Len(ds) = 0 THEN <<1>>
    ELSE IF ds[Len(ds)] < 9 THEN [ds EXCEPT ![Len(ds)] = @ + 1]
    ELSE Append(Successor(SubSeq(ds, 1, Len(ds) - 1)), 0)

RECURSIVE Predecessor(_)
Predecessor(ds) ==
    IF ds[Len(ds)] > 0 THEN [ds EXCEPT ![Len(ds)] = @ - 1]
    ELSE Append(Predecessor(SubSeq(ds, 1, Len(ds) - 1)), 9)

\* The digits before and after the decimal point of x, no leading zeros
WholePart(x) ==
    LET whole == SubSeq(x.ds, 1, Len(x.ds) - x.sc)
    IN  SubSeq(whole, LeadingZeros(whole) + 1, Len(whole))

FractionPart(x) ==
    IF x.sc <= Len(x.ds) THEN SubSeq(x.ds, Len(x.ds) - x.sc + 1, Len(x.ds))
    ELSE [k \in 1..(x.sc - Len(x.ds)) |-> 0] \o x.ds

\* -1, 0, 1 as a < b, a = b, a > b for the digits of two natural numbers
\* without leading zeros
CompareDigits(a, b) ==
    IF Len(a) # Len(b) THEN (IF Len(a) < Len(b) THEN -1 ELSE 1)
    ELSE IF a = b THEN 0
    ELSE LET k == CHOOSE i \in 1..Len(a) :
                      a[i] # b[i] /\ \A j \in 1..(i - 1) : a[j] = b[j]
         IN  IF a[k] < b[k] THEN -1 ELSE 1

\* -1, 0, 1 as x < y, x = y, x > y for two decimals
CompareDecimals(x, y) ==
    LET whole == CompareDigits(WholePart(x), WholePart(y))
        fx == DropTrailingZeros(FractionPart(x))
        fy == DropTrailingZeros(FractionPart(y))
    IN  IF whole # 0 THEN whole
        ELSE IF fx = fy THEN 0
        ELSE IF DigitsBelow(fx, fy) THEN -1 ELSE 1

\* 2^52 and 2^53: the significand of a float is a whole number from the
\* first up to the second
TwoTo52 == <<4, 5, 0, 3, 5, 9, 9, 6, 2, 7, 3, 7, 0, 4, 9, 6>>
TwoTo53 == <<9, 0, 0, 7, 1, 9, 9, 2, 5, 4, 7, 4, 0, 9, 9, 2>>

\* 2^44 and 2^61, eight doublings or halvings away from them
TwoTo44 == <<1, 7, 5, 9, 2, 1, 8, 6, 0, 4, 4, 4, 1, 6>>
TwoTo61 == <<2, 3, 0, 5, 8, 4, 3, 0, 0, 9, 2, 1, 3, 6, 9, 3, 9, 5, 2>>

\* The binary exponent e that brings x / 2^e between 2^52 and 2^53, not
\* below the exponent -1074 of the smallest floats; y is x / 2^e
RECURSIVE Scaled(_, _)
Scaled(y, e) ==
    IF CompareDigits(WholePart(y), TwoTo61) >= 0 THEN Scaled(TimesPow2(y, 0 - 8), e + 8)
    ELSE IF CompareDigits(WholePart(y), TwoTo53) >= 0 THEN Scaled(Halve(y), e + 1)
    ELSE IF CompareDigits(WholePart(y), TwoTo44) < 0 /\ e >= 8 - 1074
         THEN Scaled(TimesPow2(y, 8), e - 8)
    ELSE IF CompareDigits(WholePart(y), TwoTo52) < 0 /\ e > 0 - 1074
         THEN Scaled(Double(y), e - 1)
    ELSE [y |-> y, e |-> e]

\* The digits after position n of ds are more than half a unit of position
\* n (1), exactly half (0) or less (-1)
TailAgainstHalf(ds, n) ==
    IF n >= Len(ds) THEN -1
    ELSE IF ds[n + 1] > 5 THEN 1
    ELSE IF ds[n + 1] < 5 THEN -1
    ELSE IF \E k \in (n + 2)..Len(ds) : ds[k] # 0 THEN 1 ELSE 0

\* ds rounded to its first n digits, halves to the even digit; the digits
\* after them become zeros
RoundDigits(ds, n) ==
    LET kept == SubSeq(ds, 1, n)
        tail == TailAgainstHalf(ds, n)
        up   == tail = 1 \/ (tail = 0 /\ n > 0 /\ ds[n] % 2 = 1)
    IN  IF n >= Len(ds) THEN ds
        ELSE (IF up THEN Successor(kept) ELSE kept) \o [k \in 1..(Len(ds) - n) |-> 0]

\* x rounded to n significant digits
RoundSignificant(x, n) ==
    LET lead == LeadingZeros(x.ds)
    IN  [ds |-> RoundDigits(SubSeq(x.ds, lead + 1, Len(x.ds)), n), sc |-> x.sc]

\* The significand m and exponent e of the float m * 2^e nearest to the
\* decimal s.y * 2^(s.e), halves to the even significand; s is Scaled(x, 0)
RoundedSignificand(s) ==
    LET whole == WholePart(s.y)
        tail  == TailAgainstHalf(FractionPart(s.y), 0)
        odd   == Len(whole) > 0 /\ whole[Len(whole)] % 2 = 1
        m0    == IF tail = 1 \/ (tail = 0 /\ odd) THEN Successor(whole) ELSE whole
    IN  IF m0 = TwoTo53 THEN [m |-> TwoTo52, e |-> s.e + 1]
        ELSE [m |-> m0, e |-> s.e]

\* The float f as a decimal v, with the halfway points lo and hi to its
\* neighbours; a decimal between them is taken back to f by float(), the
\* halfway points themselves when the significand is even
RoundingInterval(f) ==
    LET twice == DoubleDigits(f.m)
    IN  [v    |-> TimesPow2([ds |-> f.m, sc |-> 0], f.e),
         hi   |-> TimesPow2([ds |-> Successor(twice), sc |-> 0], f.e - 1),
         lo   |-> IF f.m = TwoTo52 /\ f.e > 0 - 1074
                  THEN TimesPow2([ds |-> Predecessor(DoubleDigits(twice)),
                                  sc |-> 0], f.e - 2)
                  ELSE TimesPow2([ds |-> Predecessor(twice), sc |-> 0], f.e - 1),
         even |-> f.m[Len(f.m)] % 2 = 0]

\* float() takes the decimal c back to the float of the interval r
Fits(c, r) ==
    LET below == CompareDecimals(r.lo, c)
        above == CompareDecimals(c, r.hi)
    IN  /\ below < 0 \/ (below = 0 /\ r.even)
        /\ above < 0 \/ (above = 0 /\ r.even)

\* The shortest decimal that float() takes back to the float of r, the one
\* nearest to the float among these: what repr shows
ShortestRepr(r) ==
    LET n == CHOOSE k \in 1..17 :
                 /\ Fits(RoundSignificant(r.v, k), r)
                 /\ \A j \in 1..(k - 1) : ~Fits(RoundSignificant(r.v, j), r)
    IN  RoundSignificant(r.v, n)

\* The decimal x as a float value
AsFloat(x) == Float(x.ds, Len(x.ds) - x.sc)

\* The float nearest to the decimal x > 0, as repr shows it
RoundedFloat(f) ==
    IF f.m = <<>> THEN FloatZero
    ELSE IF f.e > 971 THEN FloatInf
    ELSE AsFloat(ShortestRepr(RoundingInterval(f)))

NearestFloat(x) == RoundedFloat(RoundedSignificand(Scaled(x, 0)))

\* float(s) for s matching \d+\.?\d*.  A decimal of at most 15 significant
\* digits well inside the range of the floats is the shortest decimal of its
\* float; the others go through the nearest float.
FloatOf(s) ==
    LET dot == SkipClass(s, 1, Digit)
        ip  == SubSeq(s, 1, dot - 1)
        fp  == SubSeq(s, dot + 1, Len(s))
        ds  == [k \in 1..(Len(ip) + Len(fp)) |-> DigitVal((ip \o fp)[k])]
        v   == Float(ds, Len(ip))
    IN  IF v = FloatZero THEN v
        ELSE IF Len(v.digits) <= 15 /\ v.decpt > 0 - 300 /\ v.decpt < 300 THEN v
        ELSE IF v.decpt > 310 THEN FloatInf
        ELSE IF v.decpt < 0 - 325 THEN FloatZero
        ELSE NearestFloat([ds |-> ds, sc |-> Len(fp)])

-----------------------------------------------------------------------------
(* formatter.py: WorklogFormatter                                          *)

CharAt(s, i) == IF i >= 1 /\ i <= Len(s) THEN s[i] ELSE ""

\* The explicit "unparseable" result of parse_entry (Python None)
None == [ok |-> FALSE]

\* description_text of format_entry: ". ".join(descriptions), with a final
\* "." added when the text is non-empty and does not end with one.
DescriptionText(descriptions) ==
    LET joined == Join(descriptions, <<".", " ">>)
    IN  IF Len(joined) > 0 /\ ~EndsWith(joined, <<".">>)
        THEN joined \o <<".">>
        ELSE joined

format_entry(date, hours, descriptions, has_running_entry) ==
    LET date_str  == DateStr(date)
        day_name  == DayAbbr[Weekday(date) + 1]
        hours_str == FloatRepr(hours) \o <<"h">>
                     \o (IF has_running_entry THEN <<"+">> ELSE <<>>)
    IN  date_str \o <<" ">> \o day_name \o <<" ", "(">> \o hours_str
        \o <<")", ":", " ">> \o DescriptionText(descriptions)

\* re.match(r"(\d{4}-\d{1,2}-\d{1,2}) ([A-Za-z]{3}) \((\d+\.?\d*)h(\+?)\): (.*)", entry)
\* The groups' positions, or ok = FALSE when the pattern does not match.
EntryMatch(entry) ==
    LET y1 == 1
        y2 == SkipUpTo(entry, y1, Digit, 4)                \* \d{4}
        m1 == y2 + 1
        m2 == SkipUpTo(entry, m1, Digit, 2)                \* \d{1,2}
        d1 == m2 + 1
        d2 == SkipUpTo(entry, d1, Digit, 2)                \* \d{1,2}
        n1 == d2 + 1
        n2 == SkipUpTo(entry, n1, Alpha, 3)                \* [A-Za-z]{3}
        h1 == n2 + 2
        hi == SkipClass(entry, h1, Digit)                  \* \d+
        hd == IF CharAt(entry, hi) = "." THEN hi + 1 ELSE hi   \* \.?
        h2 == SkipClass(entry, hd, Digit)                  \* \d*
        r2 == IF CharAt(entry, h2 + 1) = "+" THEN h2 + 2 ELSE h2 + 1   \* h(\+?)
        t1 == r2 + 3
        t2 == FindChar(entry, t1, NL)                      \* (.*) stops at a newline
    IN  IF /\ y2 = y1 + 4 /\ CharAt(entry, y2) = "-"
           /\ m2 > m1 /\ CharAt(entry, m2) = "-"
           /\ d2 > d1 /\ CharAt(entry, d2) = " "
           /\ n2 = n1 + 3 /\ CharAt(entry, n2) = " " /\ CharAt(entry, n2 + 1) = "("
           /\ hi > h1 /\ CharAt(entry, h2) = "h"
           /\ CharAt(entry, r2) = ")" /\ CharAt(entry, r2 + 1) = ":"
           /\ CharAt(entry, r2 + 2) = " "
        THEN [ok |-> TRUE,
              year  |-> SubSeq(entry, y1, y2 - 1),
              month |-> SubSeq(entry, m1, m2 - 1),
              day   |-> SubSeq(entry, d1, d2 - 1),
              day_name |-> SubSeq(entry, n1, n2 - 1),
              hours_str |-> SubSeq(entry, h1, h2 - 1),
              running_marker |-> SubSeq(entry, h2 + 1, r2 - 1),
              description |-> SubSeq(entry, t1, t2 - 1)]
        ELSE None

\* [d.strip() for d in description.split(".") if d.strip()]
RECURSIVE StripNonEmpty(_)
StripNonEmpty(parts) ==
    IF Len(parts) = 0 THEN <<>>
    ELSE (IF Len(Strip(Head(parts))) > 0 THEN <<Strip(Head(parts))>> ELSE <<>>)
         \o StripNonEmpty(Tail(parts))

\* An except clause that catches nothing
CaughtNothing == {}

\* except (ValueError, IndexError) of parse_entry (formatter.py 105)
CaughtByParse == {"ValueError", "IndexError"}

\* An exception that leaves the function and reaches its caller
Escapes(exc) == [ok |-> FALSE, raised |-> exc]

\* The outcome of parse_entry when exc is raised inside its try block
\* (formatter.py 105-107)
ParseExcept(exc) == IF exc \in CaughtByParse THEN None ELSE Escapes(exc)

\* What parse_entry makes of the match of its pattern (formatter.py 90-107)
ParseGroups(match) ==
    IF ~match.ok THEN None
    ELSE LET year  == StrToInt(match.year)
             month == StrToInt(match.month)
             day   == StrToInt(match.day)
         IN  \* int() and float() take every text the groups can hold;
             \* datetime(year, month, day) raises ValueError for a date
             \* that does not exist
             IF ~ValidDate(year, month, day) THEN ParseExcept("ValueError")
             ELSE [ok |-> TRUE,
                   date |-> [y |-> year, m |-> month, d |-> day],
                   day_name |-> match.day_name,
                   hours |-> FloatOf(match.hours_str),
                   has_running_entry |-> (match.running_marker = <<"+">>),
                   descriptions |-> StripNonEmpty(SplitOn(match.description, ".")),
                   description_text |-> match.description]

parse_entry(entry) == ParseGroups(EntryMatch(entry))

\* for desc in all_descriptions: if desc not in unique: unique.append(desc)
\* A union that keeps duplicates
KeepAll(all, unique) == unique \o all

RECURSIVE UniqueExact(_, _)
UniqueExact(all, unique) ==
    IF Len(all) = 0 THEN unique
    ELSE UniqueExact(Tail(all),
                     IF \E k \in 1..Len(unique) : unique[k] = Head(all)
                     THEN unique ELSE Append(unique, Head(all)))

\* The hours of the second argument, whatever the first
Latest(a, b) == b

\* Python max(a, b)
Max(a, b) == IF Less(a, b) THEN b ELSE a

\* A merge that keeps the existing line when a side does not parse
merge_keeping_existing(existing_entry, new_entry) ==
    LET existing_parsed == parse_entry(existing_entry)
        new_parsed      == parse_entry(new_entry)
    IN  IF ~existing_parsed.ok \/ ~new_parsed.ok THEN existing_entry
        ELSE format_entry(
                 existing_parsed.date,
                 Max(existing_parsed.hours, new_parsed.hours),
                 UniqueExact(existing_parsed.descriptions \o new_parsed.descriptions, <<>>),
                 existing_parsed.has_running_entry \/ new_parsed.has_running_entry)

merge_entries(existing_entry, new_entry) ==
    LET existing_parsed == parse_entry(existing_entry)
        new_parsed      == parse_entry(new_entry)
    IN  IF ~existing_parsed.ok \/ ~new_parsed.ok THEN new_entry
        ELSE format_entry(
                 existing_parsed.date,
                 Max(existing_parsed.hours, new_parsed.hours),
                 UniqueExact(existing_parsed.descriptions \o new_parsed.descriptions, <<>>),
                 existing_parsed.has_running_entry \/ new_parsed.has_running_entry)


-----------------------------------------------------------------------------
(* api/github.py: GitHubApiClient.find_entry_for_date                      *)

\* \s+[A-Za-z]+\s*\(\d+\.?\d*h\+?\):  matched from position i.
\* The position after the ":", or 0 when it does not match there.
HeaderTail(s, i) ==
    LET w2 == SkipClass(s, i, Space)                        \* \s+
        a2 == SkipClass(s, w2, Alpha)                       \* [A-Za-z]+
        w3 == SkipClass(s, a2, Space)                       \* \s*
        h1 == w3 + 1                                        \* \(
        hi == SkipClass(s, h1, Digit)                       \* \d+
        hd == IF CharAt(s, hi) = "." THEN hi + 1 ELSE hi    \* \.?
        h2 == SkipClass(s, hd, Digit)                       \* \d*
        r2 == IF CharAt(s, h2 + 1) = "+" THEN h2 + 2 ELSE h2 + 1   \* h\+?
    IN  IF /\ w2 > i /\ a2 > w2 /\ CharAt(s, w3) = "("
           /\ hi > h1 /\ CharAt(s, h2) = "h"
           /\ CharAt(s, r2) = ")" /\ CharAt(s, r2 + 1) = ":"
        THEN r2 + 2
        ELSE 0

\* (?=\n\n|\n\*|\Z) at position e
EntryStop(s, e) ==
    \/ StartsAt(s, e, <<NL, NL>>)
    \/ StartsAt(s, e, <<NL, "*">>)
    \/ e = Len(s) + 1

\* The first position >= e where the lazy .+? may stop
FirstStop(s, e) == MinOf({k \in e..(Len(s) + 1) : EntryStop(s, k)})

\* The end of  \s*.+?(?=\n\n|\n\*|\Z)  matched from position c (after the
\* ":"), or 0.  \s* is greedy and gives one character back when it has run
\* to the end of the text, because .+? needs a character (DOTALL: any one).
BodyEnd(s, c) ==
    LET w == SkipClass(s, c, Space)
        p == IF w <= Len(s) THEN w ELSE w - 1
    IN  IF p < c THEN 0 ELSE FirstStop(s, p + 1)

\* The match of the whole pattern at start position i, or 0.
EntryEndAt(s, i, date_str) ==
    IF ~StartsAt(s, i, date_str) THEN 0
    ELSE LET c == HeaderTail(s, i + Len(date_str))
         IN  IF c = 0 THEN 0 ELSE BodyEnd(s, c)

\* re.search: the leftmost start position at which the pattern matches.
SearchEntry(s, i, date_str) ==
    LET starts == {k \in i..Len(s) : EntryEndAt(s, k, date_str) # 0}
    IN  IF starts = {} THEN [found |-> FALSE]
        ELSE LET k == MinOf(starts)
                 e == EntryEndAt(s, k, date_str)
             IN  [found |-> TRUE, entry |-> SubSeq(s, k, e - 1),
                  start_index |-> k, end_index |-> e]

find_entry_for_date(content, date) == SearchEntry(content, 1, DateStr(date))

\* content[:start_index] + new_entry + content[end_index:]
Splice(content, start_index, end_index, new_entry) ==
    SubSeq(content, 1, start_index - 1) \o new_entry \o From(content, end_index)

\* The title-aware insertion of a new entry.  gap is what follows the new
\* entry: "\n" in sync.py, "\n\n" in update_or_create_entry.
InsertEntry(content, new_entry, gap) ==
    IF StartsAt(content, 1, <<"#", " ">>)
    THEN LET nl == FindChar(content, 1, NL)
             \* content.find("\n") + 1 is 0 when the title has no newline
             title_end == IF nl > Len(content) THEN 0 ELSE nl
         IN  SubSeq(content, 1, title_end) \o <<NL>> \o new_entry \o gap
             \o From(content, title_end + 1)
    ELSE new_entry \o gap \o content

update_or_create_entry(content, new_entry, date) ==
    LET existing_entry == find_entry_for_date(content, date)
    IN  IF existing_entry.found
        THEN Splice(content, existing_entry.start_index,
                    existing_entry.end_index, new_entry)
        ELSE InsertEntry(content, new_entry, <<NL, NL>>)


-----------------------------------------------------------------------------
(* sync.py: the re-normalization pass of sync_toggl_to_github              *)

\* i is where a line starts (re.MULTILINE ^)
LineStart(s, i) == i = 1 \/ CharAt(s, i - 1) = NL

\* The largest q in lo..hi with q = Len(s)+1 or s[q] = "\n" (re.MULTILINE $
\* reached by a greedy \s* giving characters back), or 0.
RECURSIVE LastLineEnd(_, _, _)
LastLineEnd(s, lo, hi) ==
    IF hi < lo THEN 0
    ELSE IF hi = Len(s) + 1 \/ CharAt(s, hi) = NL THEN hi
    ELSE LastLineEnd(s, lo, hi - 1)

\* ^\s*---\s*$ matched at the line start i: the end of the match, or 0.
RuleEndAt(s, i) ==
    LET j == SkipClass(s, i, Space)
    IN  IF ~StartsAt(s, j, <<"-", "-", "-">>) THEN 0
        ELSE LastLineEnd(s, j + 3, SkipClass(s, j + 3, Space))

\* re.sub(r'^\s*---\s*$', '', s, flags=re.MULTILINE), scanning from position i
RECURSIVE StripRules(_, _)
StripRules(s, i) ==
    LET starts == {k \in i..Len(s) : LineStart(s, k) /\ RuleEndAt(s, k) # 0}
    IN  IF starts = {} THEN From(s, i)
        ELSE LET k == MinOf(starts)
             IN  SubSeq(s, i, k - 1) \o StripRules(s, RuleEndAt(s, k))

\* \n\s*---\s*\n matched at position i: the end of the match, or 0.
\* The last \n is the last newline of the whitespace after the dashes.
RECURSIVE LastNewline(_, _, _)
LastNewline(s, lo, hi) ==
    IF hi < lo THEN 0
    ELSE IF s[hi] = NL THEN hi
    ELSE LastNewline(s, lo, hi - 1)

SeparatorEndAt(s, i) ==
    IF CharAt(s, i) # NL THEN 0
    ELSE LET j == SkipClass(s, i + 1, Space)
         IN  IF ~StartsAt(s, j, <<"-", "-", "-">>) THEN 0
             ELSE LET q == LastNewline(s, j + 3, SkipClass(s, j + 3, Space) - 1)
                  IN  IF q = 0 THEN 0 ELSE q + 1

\* re.split(r'(\n\s*---\s*\n)', s): the parts, separators included.
RECURSIVE SplitSeparators(_, _, _)
SplitSeparators(s, from, i) ==
    LET starts == {k \in i..Len(s) : SeparatorEndAt(s, k) # 0}
    IN  IF starts = {} THEN <<[sep |-> FALSE, text |-> From(s, from)]>>
        ELSE LET k == MinOf(starts)
                 q == SeparatorEndAt(s, k)
             IN  <<[sep |-> FALSE, text |-> SubSeq(s, from, k - 1)],
                   [sep |-> TRUE, text |-> SubSeq(s, k, q - 1)]>>
                 \o SplitSeparators(s, q, q)

\* generic_header_regex_str matched at position i: the position after the
\* ":", or 0.   \d{4}-\d{1,2}-\d{1,2}\s+[A-Za-z]+\s*\(\d+\.?\d*h\+?\):
GenericHeaderEnd(s, i) ==
    LET y2 == SkipUpTo(s, i, Digit, 4)
        m2 == SkipUpTo(s, y2 + 1, Digit, 2)
        d2 == SkipUpTo(s, m2 + 1, Digit, 2)
    IN  IF /\ y2 = i + 4 /\ CharAt(s, y2) = "-"
           /\ m2 > y2 + 1 /\ CharAt(s, m2) = "-"
           /\ d2 > m2 + 1
        THEN HeaderTail(s, d2)
        ELSE 0

\* (?:\n(?!header)[^\n]*)* from the line end e: the lines that follow are
\* taken while they do not start with an entry header.
RECURSIVE ContinuationEnd(_, _)
ContinuationEnd(s, e) ==
    IF e > Len(s) THEN e
    ELSE IF GenericHeaderEnd(s, e + 1) # 0 THEN e
    ELSE ContinuationEnd(s, FindChar(s, e + 1, NL))

\* re.finditer(individual_entry_pattern, part, re.MULTILINE), each match stripped
RECURSIVE FindEntries(_, _)
FindEntries(part, i) ==
    LET starts == {k \in i..Len(part) :
                      LineStart(part, k) /\ GenericHeaderEnd(part, k) # 0}
    IN  IF starts = {} THEN <<>>
        ELSE LET k == MinOf(starts)
                 e == ContinuationEnd(part, FindChar(part, GenericHeaderEnd(part, k), NL))
             IN  <<Strip(SubSeq(part, k, e - 1))>> \o FindEntries(part, e)

\* The "---" marker kept in parsed_log_entries for a separator part
RuleMark == <<"-", "-", "-">>

\* for part in parts: ... (sync.py 196-209)
RECURSIVE ParseParts(_, _)
ParseParts(parts, parsed_log_entries) ==
    IF Len(parts) = 0 THEN parsed_log_entries
    ELSE IF Head(parts).sep
         THEN ParseParts(Tail(parts),
                  IF Len(parsed_log_entries) > 0
                     /\ parsed_log_entries[Len(parsed_log_entries)] # RuleMark
                  THEN Append(parsed_log_entries, RuleMark)
                  ELSE parsed_log_entries)
         ELSE ParseParts(Tail(parts),
                  parsed_log_entries \o FindEntries(Head(parts).text, 1))

\* datetime.min and datetime.max as sort keys: days since 0001-01-01, with
\* datetime.max after the last day
DatetimeMin == 1
DatetimeMax == Ordinal([y |-> 9999, m |-> 12, d |-> 31]) + 1

\* except (ValueError, IndexError) of get_entry_date_from_string (sync.py 223)
CaughtBySort == {"ValueError", "IndexError"}

\* re.match(r"(\d{4}-\d{1,2}-\d{1,2})", entry_text): the year, month and
\* day of the text, or ok = FALSE
DateMatch(entry_text) ==
    LET y2 == SkipUpTo(entry_text, 1, Digit, 4)
        m2 == SkipUpTo(entry_text, y2 + 1, Digit, 2)
        d2 == SkipUpTo(entry_text, m2 + 1, Digit, 2)
    IN  IF /\ y2 = 5 /\ CharAt(entry_text, y2) = "-"
           /\ m2 > y2 + 1 /\ CharAt(entry_text, m2) = "-"
           /\ d2 > m2 + 1
        THEN [ok |-> TRUE,
              month_str |-> SubSeq(entry_text, y2 + 1, m2 - 1),
              day_str   |-> SubSeq(entry_text, m2 + 1, d2 - 1),
              year  |-> StrToInt(SubSeq(entry_text, 1, y2 - 1)),
              month |-> StrToInt(SubSeq(entry_text, y2 + 1, m2 - 1)),
              day   |-> StrToInt(SubSeq(entry_text, m2 + 1, d2 - 1))]
        ELSE None

\* %m of strptime: 1[0-2]|0[1-9]|[1-9], on one or two digits
StrptimeMonth(s) ==
    /\ \A k \in 1..Len(s) : s[k] \in AsciiDigit
    /\ StrToInt(s) \in 1..12

\* %d of strptime: 3[0-1]|[1-2]\d|0[1-9]|[1-9], on one or two digits; the
\* \d takes every decimal digit
StrptimeDay(s) ==
    /\ s[1] \in AsciiDigit
    /\ IF Len(s) = 1 THEN s[1] # "0"
       ELSE \/ s[1] = "3" /\ s[2] \in {"0", "1"}
            \/ s[1] \in {"1", "2"}
            \/ s[1] = "0" /\ s[2] \in AsciiDigit \ {"0"}

\* datetime.strptime(date_str, "%Y-%m-%d") raises ValueError for a text its
\* pattern does not match and for a date that does not exist
StrptimeRaises(entry_text) ==
    LET match == DateMatch(entry_text)
    IN  /\ entry_text # RuleMark
        /\ match.ok
        /\ \/ ~StrptimeMonth(match.month_str)
           \/ ~StrptimeDay(match.day_str)
           \/ ~ValidDate(match.year, match.month, match.day)

get_entry_date_from_string(entry_text) ==
    IF entry_text = RuleMark THEN DatetimeMax
    ELSE LET match == DateMatch(entry_text)
         IN  IF ~match.ok THEN DatetimeMin
             ELSE IF StrptimeRaises(entry_text) THEN DatetimeMin
             ELSE Ordinal([y |-> match.year, m |-> match.month, d |-> match.day])

\* The key function lets an exception out: list.sort stops with it
SortEscapes(parsed_log_entries) ==
    \E k \in 1..Len(parsed_log_entries) :
        StrptimeRaises(parsed_log_entries[k]) /\ "ValueError" \notin CaughtBySort

\* list.sort(key=get_entry_date_from_string, reverse=True): stable, so x goes
\* behind every element whose key is at least its own.
RECURSIVE InsertSorted(_, _)
InsertSorted(sorted, x) ==
    IF Len(sorted) = 0 THEN <<x>>
    ELSE IF get_entry_date_from_string(Head(sorted)) >= get_entry_date_from_string(x)
         THEN <<Head(sorted)>> \o InsertSorted(Tail(sorted), x)
         ELSE <<x>> \o sorted

RECURSIVE SortEntries(_, _)
SortEntries(entries, sorted) ==
    IF Len(entries) = 0 THEN sorted
    ELSE SortEntries(Tail(entries), InsertSorted(sorted, Head(entries)))

\* date - timedelta(days=date.weekday()), as a day number
MondayOf(ordinal) == ordinal - ((ordinal + 6) % 7)

\* The previous real entry of parsed_log_entries before index i ("" if none)
RECURSIVE PrevEntryText(_, _)
PrevEntryText(parsed_log_entries, j) ==
    IF j < 1 THEN <<>>
    ELSE IF parsed_log_entries[j] # RuleMark THEN parsed_log_entries[j]
    ELSE PrevEntryText(parsed_log_entries, j - 1)

\* The separator put before entry i (sync.py 238-263)
SeparatorBefore(parsed_log_entries, i) ==
    LET prev_entry_text == PrevEntryText(parsed_log_entries, i - 1)
        cur  == get_entry_date_from_string(parsed_log_entries[i])
        prev == get_entry_date_from_string(prev_entry_text)
    IN  IF i = 1 \/ Len(prev_entry_text) = 0 THEN <<>>
        ELSE IF /\ prev # DatetimeMin /\ cur # DatetimeMin /\ prev # DatetimeMax
                /\ MondayOf(prev) # MondayOf(cur)
             THEN <<NL, NL, "-", "-", "-", NL, NL>>
             ELSE <<NL, NL>>

\* "".join(final_content_parts)
RECURSIVE JoinEntries(_, _)
JoinEntries(parsed_log_entries, i) ==
    IF i > Len(parsed_log_entries) THEN <<>>
    ELSE IF parsed_log_entries[i] = RuleMark THEN JoinEntries(parsed_log_entries, i + 1)
    ELSE SeparatorBefore(parsed_log_entries, i) \o parsed_log_entries[i]
         \o JoinEntries(parsed_log_entries, i + 1)

\* str.lstrip('\n')
LStripNewlines(s) == From(s, SkipClass(s, 1, {NL}))

\* str.rstrip('\n')
RECURSIVE RStripNewlines(_)
RStripNewlines(s) ==
    IF Len(s) > 0 /\ s[Len(s)] = NL THEN RStripNewlines(SubSeq(s, 1, Len(s) - 1)) ELSE s

\* sync.py 169-209: the entries of the text, in the order of the text
ParsedEntries(worklog_content) ==
    LET has_title == StartsAt(worklog_content, 1, <<"#", " ">>)
        first_newline_idx == FindChar(worklog_content, 1, NL)
        after_title ==
            IF ~has_title THEN worklog_content
            ELSE IF first_newline_idx <= Len(worklog_content)
                 THEN From(worklog_content, first_newline_idx + 1)
                 ELSE <<>>
        content_to_parse == StripRules(LStripNewlines(after_title), 1)
    IN  IF Len(Strip(content_to_parse)) > 0
        THEN ParseParts(SplitSeparators(content_to_parse, 1, 1), <<>>)
        ELSE <<>>

\* sync.py 174-181
TitlePrefix(worklog_content) ==
    LET first_newline_idx == FindChar(worklog_content, 1, NL)
    IN  IF ~StartsAt(worklog_content, 1, <<"#", " ">>) THEN <<>>
        ELSE IF first_newline_idx <= Len(worklog_content)
             THEN SubSeq(worklog_content, 1, first_newline_idx)
             ELSE worklog_content

\* sync.py 169-282: parse every entry, sort, and render the document again
Renormalize(worklog_content) ==
    LET title_prefix_for_reconstruction == TitlePrefix(worklog_content)
        final_entries_section ==
            JoinEntries(SortEntries(ParsedEntries(worklog_content), <<>>), 1)
    IN  IF Len(title_prefix_for_reconstruction) > 0
        THEN IF Len(final_entries_section) > 0
             THEN RStripNewlines(title_prefix_for_reconstruction) \o <<NL, NL>>
                  \o final_entries_section \o <<NL>>
             ELSE RStripNewlines(title_prefix_for_reconstruction) \o <<NL>>
        ELSE IF Len(final_entries_section) > 0
             THEN final_entries_section \o <<NL>>
             ELSE <<NL>>


-----------------------------------------------------------------------------
(* api/toggl.py: calculate_daily_hours; sync.py: the per-day summary       *)

\* A time entry is [id, day, duration, elapsed, description]: day is the
\* local calendar date of its start, elapsed is (now - start) in seconds for
\* a running entry, description is empty when absent.

\* 2^j mod 5, by j mod 4
Pow2Mod5 == <<1, 2, 4, 3>>

\* floor(log2(n / 20)) for a positive integer n: the binary exponent of the
\* float n / 20
RECURSIVE BinaryExponent(_, _, _)
BinaryExponent(n, scale, e) ==
    IF n >= 20 * scale
    THEN IF n >= 40 * scale THEN BinaryExponent(n, 2 * scale, e + 1) ELSE e
    ELSE BinaryExponent(2 * n, scale, e - 1)

\* total_seconds / 3600 lies halfway between two tenths, n / 20 with n odd.
\* The float is the nearest multiple of 2^(E - 52); it is the exact half when
\* 5 divides n, above it when n * 2^(50 - E) mod 5 is 3 or 4, below it
\* otherwise. round() goes by the float: above goes up, below goes down, and
\* the exact half goes to the even tenth.
TieRoundsUp(total_seconds) ==
    LET q == total_seconds \div 360
        n == 2 * q + 1
        E == BinaryExponent(n, 1, 0)
    IN  IF n % 5 = 0 THEN q % 2 = 1
        ELSE ((n % 5) * Pow2Mod5[((50 - E) % 4) + 1]) % 5 \in {3, 4}

\* The hours cut off after the first decimal
FloorTenths(total_seconds) == total_seconds \div 360

\* round(total_seconds / 3600, 1), in tenths of an hour
RoundTenths(total_seconds) ==
    IF total_seconds % 360 = 180
    THEN (total_seconds \div 360) + (IF TieRoundsUp(total_seconds) THEN 1 ELSE 0)
    ELSE (total_seconds + 180) \div 360

RECURSIVE TotalSeconds(_)
TotalSeconds(entries) ==
    IF Len(entries) = 0 THEN 0
    ELSE (IF Head(entries).duration > 0 THEN Head(entries).duration
          ELSE IF Head(entries).duration < 0 THEN Head(entries).elapsed
          ELSE 0)
         + TotalSeconds(Tail(entries))

\* The float total_hours
calculate_daily_hours(entries) == Decimal(RoundTenths(TotalSeconds(entries)), 1)

\* [e for e in all_entries if day_start <= start(e) <= day_end]
RECURSIVE EntriesForDay(_, _)
EntriesForDay(all_entries, current_date) ==
    IF Len(all_entries) = 0 THEN <<>>
    ELSE (IF Head(all_entries).day = current_date THEN <<Head(all_entries)>> ELSE <<>>)
         \o EntriesForDay(Tail(all_entries), current_date)

Redacted == <<"[", "R", "E", "D", "A", "C", "T", "E", "D", " ", "-", " ", "t", "o", " ", "b", "e", " ", "u", "p", "d", "a", "t", "e", "d", " ", "s", "o", "o", "n", "]">>

ToBeUpdated == <<"[", "T", "o", " ", "b", "e", " ", "u", "p", "d", "a", "t", "e", "d", "]">>

\* sync.py 95-104
RECURSIVE Descriptions(_)
Descriptions(entries_for_day) ==
    IF Len(entries_for_day) = 0 THEN <<>>
    ELSE LET desc == Strip(Head(entries_for_day).description)
         IN  <<IF Len(desc) > 0 THEN desc ELSE Redacted>>
             \o Descriptions(Tail(entries_for_day))

\* The length of the common run of a from i and b from j, inside a[..ahi], b[..bhi]
RECURSIVE RunLength(_, _, _, _, _, _)
RunLength(a, i, ahi, b, j, bhi) ==
    IF i <= ahi /\ j <= bhi /\ a[i] = b[j]
    THEN 1 + RunLength(a, i + 1, ahi, b, j + 1, bhi)
    ELSE 0

\* The length of the common run of a and b going back from i and j, inside
\* a[alo..], b[blo..]
RECURSIVE RunBack(_, _, _, _, _, _)
RunBack(a, i, alo, b, j, blo) ==
    IF i >= alo /\ j >= blo /\ a[i] = b[j]
    THEN 1 + RunBack(a, i - 1, alo, b, j - 1, blo)
    ELSE 0

\* SequenceMatcher.__chain_b: the characters of b that occur more than
\* len(b) // 100 + 1 times, when b has 200 characters or more (autojunk);
\* they are dropped from the index
Popular(b) ==
    IF Len(b) < 200 THEN {}
    ELSE {c \in {b[k] : k \in 1..Len(b)} :
             Cardinality({k \in 1..Len(b) : b[k] = c}) > (Len(b) \div 100) + 1}

\* The common run from i and j as far as the characters of b are indexed
RECURSIVE IndexedRun(_, _, _, _, _, _, _)
IndexedRun(a, i, ahi, b, j, bhi, popular) ==
    IF i <= ahi /\ j <= bhi /\ a[i] = b[j] /\ b[j] \notin popular
    THEN 1 + IndexedRun(a, i + 1, ahi, b, j + 1, bhi, popular)
    ELSE 0

\* difflib.SequenceMatcher.find_longest_match (no junk, autojunk on): the
\* longest block of indexed characters, the one starting earliest in a and
\* then earliest in b among the longest, and none of length 0 at (alo, blo);
\* then the block grows to both sides as long as the characters agree.
LongestMatch(a, alo, ahi, b, blo, bhi) ==
    LET popular == Popular(b)
        cand == {<<i, j>> \in (alo..ahi) \X (blo..bhi) :
                    a[i] = b[j] /\ b[j] \notin popular}
        len(c) == IndexedRun(a, c[1], ahi, b, c[2], bhi, popular)
        best == IF cand = {} THEN <<alo, blo>>
                ELSE CHOOSE c \in cand :
                         \A o \in cand :
                             \/ len(c) > len(o)
                             \/ len(c) = len(o) /\ c[1] < o[1]
                             \/ len(c) = len(o) /\ c[1] = o[1] /\ c[2] <= o[2]
        back == RunBack(a, best[1] - 1, alo, b, best[2] - 1, blo)
    IN  [i |-> best[1] - back, j |-> best[2] - back,
         k |-> back + RunLength(a, best[1], ahi, b, best[2], bhi)]

\* The total size of SequenceMatcher.get_matching_blocks()
RECURSIVE MatchCount(_, _, _, _, _, _)
MatchCount(a, alo, ahi, b, blo, bhi) ==
    IF alo > ahi \/ blo > bhi THEN 0
    ELSE LET x == LongestMatch(a, alo, ahi, b, blo, bhi)
         IN  IF x.k = 0 THEN 0
             ELSE x.k + MatchCount(a, alo, x.i - 1, b, blo, x.j - 1)
                      + MatchCount(a, x.i + x.k, ahi, b, x.j + x.k, bhi)

\* The similarity threshold of sync.py, in percent
SimilarityThreshold == 85

\* A comparison that also takes a ratio of exactly 0.85 for a duplicate
AtLeastThreshold(desc, existing) ==
    2 * MatchCount(desc, 1, Len(desc), existing, 1, Len(existing)) * 100
        >= SimilarityThreshold * (Len(desc) + Len(existing))

\* difflib.SequenceMatcher(None, desc, existing).ratio() > 0.85
IsSimilar(desc, existing) ==
    LET total == Len(desc) + Len(existing)
        matches == MatchCount(desc, 1, Len(desc), existing, 1, Len(existing))
    IN  IF total = 0 THEN TRUE
        ELSE 2 * matches * 100 > SimilarityThreshold * total

\* sync.py 106-120
RECURSIVE UniqueSimilar(_, _)
UniqueSimilar(descriptions, unique_descriptions) ==
    IF Len(descriptions) = 0 THEN unique_descriptions
    ELSE UniqueSimilar(Tail(descriptions),
             IF \E k \in 1..Len(unique_descriptions) :
                    IsSimilar(Head(descriptions), unique_descriptions[k])
             THEN unique_descriptions
             ELSE Append(unique_descriptions, Head(descriptions)))

\* sync.py 122-126
SyncDescriptionText(unique_descriptions) ==
    LET description_text == Join(unique_descriptions, <<".", " ">>)
    IN  IF Len(Strip(description_text)) = 0 THEN ToBeUpdated
        ELSE IF ~EndsWith(description_text, <<".">>) THEN description_text \o <<".">>
        ELSE description_text

\* sync.py 84-132: the line rendered for current_date.  current_entry is the
\* answer of get_current_time_entry: [present, day].
NewEntry(current_date, entries_for_day, current_entry) ==
    LET total_hours == calculate_daily_hours(entries_for_day)
        hours_str == FloatRepr(total_hours) \o <<"h">>
                     \o (IF current_entry.present /\ current_entry.day = current_date
                         THEN <<"+">> ELSE <<>>)
        day_name == DayAbbr[Weekday(current_date) + 1]
        date_str == DateStr(current_date)
    IN  date_str \o <<" ">> \o day_name \o <<" ", "(">> \o hours_str
        \o <<")", ":", " ">>
        \o SyncDescriptionText(UniqueSimilar(Descriptions(entries_for_day), <<>>))

\* sync.py 134-157: splice the new line over the located entry, or insert it
LocateOrInsert(worklog_content, new_entry, current_date) ==
    LET existing_entry == find_entry_for_date(worklog_content, current_date)
    IN  IF existing_entry.found
        THEN Splice(worklog_content, existing_entry.start_index,
                    existing_entry.end_index, new_entry)
        ELSE InsertEntry(worklog_content, new_entry, <<NL>>)

\* An iteration that renders a line for every day, tracked or not
ProcessEveryDay(worklog_content, current_date, all_entries, current_entry) ==
    LocateOrInsert(worklog_content,
                   NewEntry(current_date, EntriesForDay(all_entries, current_date),
                            current_entry),
                   current_date)

\* One iteration of the day loop (sync.py 64-162) on the in-memory text
ProcessDay(worklog_content, current_date, all_entries, current_entry) ==
    LET entries_for_day == EntriesForDay(all_entries, current_date)
    IN  IF calculate_daily_hours(entries_for_day) = FloatZero THEN worklog_content
        ELSE LocateOrInsert(worklog_content,
                            NewEntry(current_date, entries_for_day, current_entry),
                            current_date)


-----------------------------------------------------------------------------
(* Documents, Toggl answers and date ranges the runs are checked on.       *)

\* an empty file: ''
DocEmpty ==
    <<>>

\* a title and two entries, as the reconciler renders them: '# W\n\n2025-4-9 Wed (1.0h): a.\n\n2025-4-8 Tue (2.0h): b.\n'
DocTitled ==
    <<"#"," ","W","\n","\n","2","0","2","5","-","4","-","9"," ","W","e","d",
     " ","(","1",".","0","h",")",":"," ","a",".","\n","\n","2","0","2","5",
     "-","4","-","8"," ","T","u","e"," ","(","2",".","0","h",")",":"," ",
     "b",".","\n">>

\* two entries across a week boundary: '2025-4-7 Mon (1.0h): a.\n\n---\n\n2025-4-6 Sun (2.0h): b.\n'
DocWeeks ==
    <<"2","0","2","5","-","4","-","7"," ","M","o","n"," ","(","1",".","0",
     "h",")",":"," ","a",".","\n","\n","-","-","-","\n","\n","2","0","2",
     "5","-","4","-","6"," ","S","u","n"," ","(","2",".","0","h",")",":",
     " ","b",".","\n">>

\* a hand-written note only: 'note\n'
DocNote ==
    <<"n","o","t","e","\n">>

\* an indented entry: '  2025-4-9 Wed (0.5h): a.\n'
DocIndented ==
    <<" "," ","2","0","2","5","-","4","-","9"," ","W","e","d"," ","(","0",
     ".","5","h",")",":"," ","a",".","\n">>

\* an entry behind a bullet: '* 2025-4-9 Wed (0.5h): a.\n'
DocBullet ==
    <<"*"," ","2","0","2","5","-","4","-","9"," ","W","e","d"," ","(","0",
     ".","5","h",")",":"," ","a",".","\n">>

\* an entry with an empty description: '2025-4-9 Wed (0.5h):\n\n2025-4-8 Tue (2.0h): b.\n'
DocEmptyDesc ==
    <<"2","0","2","5","-","4","-","9"," ","W","e","d"," ","(","0",".","5",
     "h",")",":","\n","\n","2","0","2","5","-","4","-","8"," ","T","u","e",
     " ","(","2",".","0","h",")",":"," ","b",".","\n">>

\* entries separated by single newlines: '2025-4-9 Wed (0.5h): a.\n2025-4-7 Mon (2.0h): b.\n'
DocSingleNL ==
    <<"2","0","2","5","-","4","-","9"," ","W","e","d"," ","(","0",".","5",
     "h",")",":"," ","a",".","\n","2","0","2","5","-","4","-","7"," ","M",
     "o","n"," ","(","2",".","0","h",")",":"," ","b",".","\n">>

\* a hand-edited entry with a zero-padded date: '2025-04-09 Wed (0.5h): a.\n'
DocPadded ==
    <<"2","0","2","5","-","0","4","-","0","9"," ","W","e","d"," ","(","0",
     ".","5","h",")",":"," ","a",".","\n">>

\* a title without a newline: '# W'
DocTitleOnly ==
    <<"#"," ","W">>

\* entries out of order, more hours than tracked: '2025-4-6 Sun (2.0h): b.\n\n2025-4-9 Wed (3.0h): c.\n'
DocUnsorted ==
    <<"2","0","2","5","-","4","-","6"," ","S","u","n"," ","(","2",".","0",
     "h",")",":"," ","b",".","\n","\n","2","0","2","5","-","4","-","9"," ",
     "W","e","d"," ","(","3",".","0","h",")",":"," ","c",".","\n">>

\* entries with dates that do not exist around a dated one: '2025-2-30 Sun (1.0h): x.\n\n2025-4-6 Sun (2.0h): b.\n\n2025-13-1 Mon (1.0h): y.\n'
DocBadDates ==
    <<"2","0","2","5","-","2","-","3","0"," ","S","u","n"," ","(","1",".",
     "0","h",")",":"," ","x",".","\n","\n","2","0","2","5","-","4","-","6",
     " ","S","u","n"," ","(","2",".","0","h",")",":"," ","b",".","\n","\n",
     "2","0","2","5","-","1","3","-","1"," ","M","o","n"," ","(","1",".",
     "0","h",")",":"," ","y",".","\n">>

\* an entry of the first day of the calendar, whose key is datetime.min:
\* '0001-1-1 Mon (1.0h): y.\n'
DocFirstDay ==
    <<"0","0","0","1","-","1","-","1"," ","M","o","n"," ","(","1",".","0",
     "h",")",":"," ","y",".","\n">>

\* an entry with a date that does not exist before the first day of the
\* calendar: '2025-13-1 Sun (1.0h): x.\n\n0001-1-1 Mon (1.0h): y.\n'
DocFirstDayLast ==
    <<"2","0","2","5","-","1","3","-","1"," ","S","u","n"," ","(","1",".",
     "0","h",")",":"," ","x",".","\n","\n","0","0","0","1","-","1","-","1",
     " ","M","o","n"," ","(","1",".","0","h",")",":"," ","y",".","\n">>

\* what another writer stores: '# W\n\n2025-4-9 Wed (9.0h): z.\n'
DocOther ==
    <<"#"," ","W","\n","\n","2","0","2","5","-","4","-","9"," ","W","e","d",
     " ","(","9",".","0","h",")",":"," ","z",".","\n">>

InitialDocs ==
    {DocEmpty, DocTitled, DocWeeks, DocNote, DocIndented, DocBullet,
     DocEmptyDesc, DocSingleNL, DocPadded, DocTitleOnly, DocUnsorted,
     DocBadDates, DocFirstDay, DocFirstDayLast}

\* The content another writer of the repository stores
ExternalContents == {DocOther}

Day(d) == [y |-> 2025, m |-> 4, d |-> d]

\* datetime.now(timezone).date()
Today == Day(9)

\* An omitted start_date / end_date (Python None)
NoDate == [y |-> 0, m |-> 0, d |-> 0]

NoCurrent == [present |-> FALSE, day |-> NoDate]

\* datetime.time.min and datetime.time.max: the seconds since midnight and
\* the microseconds of the second
TimeMin == [secs |-> 0, usec |-> 0]
TimeMax == [secs |-> 86399, usec |-> 999999]

\* datetime.combine(date, time): a local datetime is a calendar date, the
\* seconds since its midnight and the microseconds of the second
Combine(date, time) == [date |-> date, secs |-> time.secs, usec |-> time.usec]

\* A datetime on a full second
At(date, secs) == Combine(date, [secs |-> secs, usec |-> 0])

\* The datetime delta seconds (less than a day) after t
AddSeconds(t, delta) ==
    IF t.secs + delta < 86400 THEN [t EXCEPT !.secs = t.secs + delta]
    ELSE [t EXCEPT !.date = NextDay(t.date), !.secs = t.secs + delta - 86400]

\* config.py 24: the zone of a configuration that names none
DefaultTimezone == "America/Los_Angeles"

Timezones == {"UTC", DefaultTimezone}

\* The offsets of a pytz zone from UTC in minutes: the first one of its
\* table, the local mean time that a datetime gets from
\* .replace(tzinfo=zone), and the one in force on Today (daylight time)
LmtOffset(zone) == IF zone = "UTC" THEN 0 ELSE 0 - (7 * 60 + 53)
UtcOffset(zone) == IF zone = "UTC" THEN 0 ELSE 0 - 7 * 60

\* naive.replace(tzinfo=zone), as a local time of the zone: the instant lies
\* later by the difference of the two offsets
ReplaceTzinfo(naive, zone) ==
    AddSeconds(naive, (UtcOffset(zone) - LmtOffset(zone)) * 60)

\* datetime.now(timezone): ten o'clock of Today
Now == At(Today, 10 * 3600)

\* An omitted datetime argument (Python None)
Omitted == At(NoDate, 0)

\* toggl.py 40-44: the range get_time_entries asks the server for.  When
\* either date is omitted, both are replaced by the bounds of the current day.
RequestedRange(start, end, zone) ==
    IF start = Omitted \/ end = Omitted
    THEN [from |-> ReplaceTzinfo(Combine(Today, TimeMin), zone),
          to |-> ReplaceTzinfo(Combine(Today, TimeMax), zone)]
    ELSE [from |-> start, to |-> end]

Entry(id, day, duration, elapsed, description) ==
    [id |-> id, day |-> day, duration |-> duration, elapsed |-> elapsed,
     description |-> description]

\* A description somebody typed that differs from the placeholder in its
\* last character only: '[REDACTED - to be updated soon'
AlmostRedacted == SubSeq(Redacted, 1, Len(Redacted) - 1)

\* What get_time_entries and get_current_time_entry answer during a run
TogglAnswers ==
    { [entries |-> <<Entry(1, Day(9), 3600, 0, <<"a">>),
                     Entry(2, Day(8), 7200, 0, <<"b">>)>>,
       current |-> NoCurrent],
      [entries |-> <<Entry(1, Day(9), 1800, 0, <<"a", "b">>),
                     Entry(2, Day(9), -1, 1800, <<"a", "b">>),
                     Entry(3, Day(7), 3600, 0, <<>>),
                     Entry(4, Day(6), 5400, 0, <<" ", "b">>)>>,
       current |-> [present |-> TRUE, day |-> Day(9)]],
      [entries |-> <<Entry(1, Day(8), 100, 0, <<"t">>)>>,
       current |-> NoCurrent],
      [entries |-> <<Entry(1, Day(9), 1800, 0, <<"a">>),
                     Entry(2, Day(9), 1800, 0, <<>>),
                     Entry(3, Day(8), 3600, 0, <<" ">>),
                     Entry(4, Day(8), 3600, 0, <<>>)>>,
       current |-> NoCurrent],
      [entries |-> <<Entry(1, Day(9), 1800, 0, AlmostRedacted),
                     Entry(2, Day(9), 1800, 0, <<>>)>>,
       current |-> NoCurrent],
      [entries |-> <<>>, current |-> NoCurrent] }

\* (start_date, end_date) as the caller passes them
DateArgs ==
    { [start_date |-> Day(9), end_date |-> Day(9)],
      [start_date |-> Day(8), end_date |-> Day(9)],
      [start_date |-> Day(6), end_date |-> Day(7)],
      [start_date |-> NoDate, end_date |-> NoDate],
      [start_date |-> Day(8), end_date |-> NoDate],
      [start_date |-> NoDate, end_date |-> Day(9)] }


-----------------------------------------------------------------------------
(* sync.py: sync_toggl_to_github as a process run against the document     *)
(* store, with another writer of the same file.                            *)

VARIABLES
    store,              \* the stored file: [content, sha]
    toggl,              \* the Toggl answers of the runs: [entries, current]
    args,               \* [start_date, end_date] passed to every run
    config,             \* which of the notification settings are set
    sendgrid,           \* "up" | "down": whether SendGrid takes a message
    run,                \* the number of the run in progress
    pc,                 \* "start" | "fetch" | "days" | "done"
    start_date,         \* the range after the defaults
    end_date,
    worklog_content,
    original_worklog_content,
    sha,
    all_entries,
    current_date,
    result,             \* "pending" | "True" | "False": what the run returns
    external_writes,    \* how often the other writer has stored
    log,                \* every call and outcome of the run in progress, in order
    history             \* the outcome of every earlier run, in order

svars == <<store, toggl, args, config, sendgrid, run, pc, start_date, end_date,
           worklog_content, original_worklog_content, sha, all_entries,
           current_date, result, external_writes, log, history>>

vars == <<fvars, svars, uvars, cvars, pvars>>

\* How many runs follow each other
MaxRuns == 2

\* How often the other writer stores
MaxExternalWrites == 1

\* A log entry.  op is "read", "fetch", "day", "write", "notify", "return",
\* "external", or "raise_dates", "raise_read", "raise_fetch", "raise_day",
\* "raise_sort", "raise_write" for
\* an exception reaching the handler; text, n, flag and date are the fields
\* the operation has.
Event(r, op, text, n, flag, date) ==
    [run |-> r, op |-> op, text |-> text, n |-> n, flag |-> flag, date |-> date]

\* config.py: the notification settings, each set (TRUE) or empty or None
Settings(key, from, to) ==
    [sendgrid_api_key |-> key, notification_email_from |-> from,
     notification_email_to |-> to]

AllSettings == Settings(TRUE, TRUE, TRUE)

NoSettings == Settings(FALSE, FALSE, FALSE)

Configs == {Settings(k, f, t) : k \in BOOLEAN, f \in BOOLEAN, t \in BOOLEAN}

KeyConfigured(c) == c.sendgrid_api_key

\* sync.py 294-298
NotifyConfigured(c) ==
    /\ c.sendgrid_api_key
    /\ c.notification_email_from
    /\ c.notification_email_to

SyncStart(docs, dates, configs, grids) ==
    /\ store \in {[content |-> d, sha |-> 1] : d \in docs}
    /\ toggl \in TogglAnswers
    /\ args \in dates
    /\ config \in configs
    /\ sendgrid \in grids
    /\ run = 1
    /\ pc = "start"
    /\ start_date = NoDate
    /\ end_date = NoDate
    /\ worklog_content = <<>>
    /\ original_worklog_content = <<>>
    /\ sha = 0
    /\ all_entries = <<>>
    /\ current_date = NoDate
    /\ result = "pending"
    /\ external_writes = 0
    /\ log = <<>>
    /\ history = <<>>

\* timezone.localize(dt) for the midnight dt of a date raises OverflowError:
\* a pytz zone with a table of offsets looks at dt - 1 day and dt + 1 day,
\* which leave the datetimes on the first and the last day; UTC only
\* attaches itself
LocalizeRaises(date, zone) == zone # "UTC" /\ date \in {DateMin, DateMax}

\* sync.py 42-50: the dates after the defaults.  With exactly one of them
\* omitted, reading .tzinfo of None raises AttributeError; a date the
\* caller passes has no zone and is localized.
DatesRaise ==
    \/ (args.start_date = NoDate) # (args.end_date = NoDate)
    \/ /\ args.start_date # NoDate
       /\ args.end_date # NoDate
       /\ \/ LocalizeRaises(args.start_date, timezone)
          \/ LocalizeRaises(args.end_date, timezone)

ResolvedStart == IF args.start_date = NoDate THEN Today ELSE args.start_date
ResolvedEnd   == IF args.end_date = NoDate THEN Today ELSE args.end_date

\* sync.py 42-50: start_date and end_date as datetimes.  With no dates both
\* are datetime.now(timezone); a date the caller passes is the midnight
\* strptime("%Y-%m-%d") gives (__main__.py 37), localized.
StartDatetime ==
    IF args.start_date = NoDate THEN Now ELSE Combine(args.start_date, TimeMin)
EndDatetime ==
    IF args.end_date = NoDate THEN Now ELSE Combine(args.end_date, TimeMin)

\* The log entry of a call of get_time_entries: a "fetch" event with the
\* range the server is asked for
FetchEvent(r, range) ==
    [run |-> r, op |-> "fetch", text |-> <<>>, n |-> 0, flag |-> TRUE,
     date |-> NoDate, from |-> range.from, to |-> range.to]

\* sync.py 299, 304-329: send_error_notification is called when the three
\* settings are present; it catches its own exceptions, so the event's flag
\* (the message was taken) is all that a failing sg.send leaves behind.
send_error_notification ==
    IF NotifyConfigured(config)
    THEN <<Event(run, "notify", <<>>, 0, sendgrid = "up", NoDate)>>
    ELSE <<>>

\* sync.py 290-301: the handler of every exception of the run
HandlerLog(stage) ==
    <<Event(run, stage, <<>>, 0, FALSE, NoDate)>>
    \o send_error_notification
    \o <<Event(run, "return", store.content, 0, FALSE, NoDate)>>

\* A handler that reports success
HandlerSwallows(stage) ==
    /\ log' = log \o HandlerLog(stage)
    /\ result' = "True"
    /\ pc' = "done"

Handler(stage) ==
    /\ log' = log \o HandlerLog(stage)
    /\ result' = "False"
    /\ pc' = "done"

\* sync.py 33-54: clients, dates, get_worklog_content
ReadDocument ==
    /\ pc = "start"
    /\ ~DatesRaise
    /\ start_date' = ResolvedStart
    /\ end_date' = ResolvedEnd
    /\ worklog_content' = store.content
    /\ original_worklog_content' = store.content
    /\ sha' = store.sha
    /\ log' = Append(log, Event(run, "read", store.content, store.sha, TRUE, NoDate))
    /\ pc' = "fetch"
    /\ UNCHANGED <<store, toggl, args, config, sendgrid, run, all_entries,
                   current_date, result, external_writes, history, fvars, uvars, cvars, pvars>>

\* An exception before the document is read: a missing date, a date that
\* cannot be localized, or the read itself (github.py 48-50)
ReadRaises ==
    /\ pc = "start"
    /\ Handler(IF DatesRaise THEN "raise_dates" ELSE "raise_read")
    /\ UNCHANGED <<store, toggl, args, config, sendgrid, run, start_date,
                   end_date, worklog_content, original_worklog_content, sha,
                   all_entries, current_date, external_writes, history, fvars, uvars, cvars, pvars>>

\* sync.py 56-62: get_time_entries for the whole range
FetchEntries ==
    /\ pc = "fetch"
    /\ all_entries' = toggl.entries
    /\ current_date' = end_date
    /\ log' = Append(log, FetchEvent(run, RequestedRange(StartDatetime, EndDatetime, timezone)))
    /\ pc' = "days"
    /\ UNCHANGED <<store, toggl, args, config, sendgrid, run, start_date,
                   end_date, worklog_content, original_worklog_content, sha,
                   result, external_writes, history, fvars, uvars, cvars, pvars>>

\* get_time_entries raises (toggl.py 77)
FetchRaises ==
    /\ pc = "fetch"
    /\ Handler("raise_fetch")
    /\ UNCHANGED <<store, toggl, args, config, sendgrid, run, start_date,
                   end_date, worklog_content, original_worklog_content, sha,
                   all_entries, current_date, external_writes, history, fvars, uvars, cvars, pvars>>

DaysLeft == pc = "days" /\ Ordinal(current_date) >= Ordinal(start_date)

\* The day has tracked hours (sync.py 79)
DayHasHours == calculate_daily_hours(EntriesForDay(all_entries, current_date)) # FloatZero

\* sync.py 64-162: one iteration of the day loop.  Stepping back from
\* date.min (sync.py 81, 162) raises, which ends the run in the handler.
DayStep ==
    /\ DaysLeft
    /\ IF PrevDayRaises(current_date)
       THEN /\ Handler("raise_day")
            /\ UNCHANGED <<worklog_content, current_date>>
       ELSE /\ worklog_content' = ProcessDay(worklog_content, current_date,
                                             all_entries, toggl.current)
            /\ log' = Append(log, Event(run, "day", worklog_content', 0,
                                        DayHasHours, current_date))
            /\ current_date' = PrevDay(current_date)
            /\ UNCHANGED <<pc, result>>
    /\ UNCHANGED <<store, toggl, args, config, sendgrid, run, start_date,
                   end_date, original_worklog_content, sha, all_entries,
                   external_writes, history, fvars, uvars, cvars, pvars>>

\* An exception inside an iteration: get_current_time_entry raises
\* (toggl.py 297), or the locate step does
DayRaises ==
    /\ DaysLeft
    /\ DayHasHours
    /\ Handler("raise_day")
    /\ UNCHANGED <<store, toggl, args, config, sendgrid, run, start_date,
                   end_date, worklog_content, original_worklog_content, sha,
                   all_entries, current_date, external_writes, history, fvars, uvars, cvars, pvars>>

\* A loop that may stop before the first day of the range
LoopDoneEarly == pc = "days"

LoopDone == pc = "days" /\ Ordinal(current_date) < Ordinal(start_date)

\* sync.py 164-167: nothing changed, no update
FinishUnchanged ==
    /\ LoopDone
    /\ worklog_content = original_worklog_content
    /\ log' = Append(log, Event(run, "return", store.content, 0, TRUE, NoDate))
    /\ result' = "True"
    /\ pc' = "done"
    /\ UNCHANGED <<store, toggl, args, config, sendgrid, run, start_date,
                   end_date, worklog_content, original_worklog_content, sha,
                   all_entries, current_date, external_writes, history, fvars, uvars, cvars, pvars>>

\* The store takes a write that names the version it holds (the contents
\* API of the repository host answers 409 otherwise)
StoreAccepts(token) == token = store.sha

\* An update that does not pass the version it read
update_worklog_forced(new_content, token) ==
    [returned |-> TRUE, store |-> [content |-> new_content, sha |-> store.sha + 1]]

\* github.py 52-76: update_worklog(new_content, sha) returns True, or
\* raises what update_file raised
update_worklog(new_content, token) ==
    IF StoreAccepts(token)
    THEN [returned |-> TRUE, store |-> [content |-> new_content, sha |-> store.sha + 1]]
    ELSE [returned |-> FALSE, store |-> store]

\* sync.py 164-288: the text changed: render it again and update the file
FinishWrite ==
    /\ LoopDone
    /\ worklog_content # original_worklog_content
    /\ IF SortEscapes(ParsedEntries(worklog_content))
       THEN /\ log' = log \o HandlerLog("raise_sort")
            /\ result' = "False"
            /\ UNCHANGED <<worklog_content, store>>
       ELSE \E final \in {Renormalize(worklog_content)} :
              \E call \in {update_worklog(final, sha)} :
                /\ worklog_content' = final
                /\ store' = call.store
                /\ IF call.returned
                   THEN /\ log' = log
                            \o <<Event(run, "write", final, sha, TRUE, NoDate),
                                 Event(run, "return", call.store.content, 0, TRUE, NoDate)>>
                        /\ result' = "True"
                   ELSE /\ log' = log
                            \o <<Event(run, "write", final, sha, FALSE, NoDate)>>
                            \o HandlerLog("raise_write")
                        /\ result' = "False"
    /\ pc' = "done"
    /\ UNCHANGED <<toggl, args, config, sendgrid, run, start_date, end_date,
                   original_worklog_content, sha, all_entries, current_date,
                   external_writes, history, fvars, uvars, cvars, pvars>>

\* Another writer stores the file after the run has read it.  (A write of
\* the other writer before the read is a different initial document.)
ExternalWrite ==
    /\ external_writes < MaxExternalWrites
    /\ pc \in {"fetch", "days"}
    /\ \E c \in ExternalContents :
           /\ store' = [content |-> c, sha |-> store.sha + 1]
           /\ log' = Append(log, Event(0, "external", c, store.sha + 1, TRUE, NoDate))
    /\ external_writes' = external_writes + 1
    /\ UNCHANGED <<toggl, args, config, sendgrid, run, pc, start_date, end_date,
                   worklog_content, original_worklog_content, sha, all_entries,
                   current_date, result, history, fvars, uvars, cvars, pvars>>

\* The operations of the finished run with the given name
Ops(op) == {i \in 1..Len(log) : log[i].op = op}

\* What a finished run leaves behind: its return value, the stored text, the
\* texts it asked the store to take, and whether the other writer stored
\* during it
RunSummary ==
    [result   |-> result,
     content  |-> store.content,
     writes   |-> [i \in 1..Cardinality(Ops("write")) |->
                      log[CHOOSE k \in Ops("write") :
                              Cardinality({j \in Ops("write") : j <= k}) = i].text],
     disturbed |-> Ops("external") # {}]

\* The caller runs the reconciler again with the same arguments
NextRun ==
    /\ pc = "done"
    /\ run < MaxRuns
    /\ run' = run + 1
    /\ pc' = "start"
    /\ result' = "pending"
    /\ history' = Append(history, RunSummary)
    /\ log' = <<>>
    /\ start_date' = NoDate
    /\ end_date' = NoDate
    /\ worklog_content' = <<>>
    /\ original_worklog_content' = <<>>
    /\ sha' = 0
    /\ all_entries' = <<>>
    /\ current_date' = NoDate
    /\ UNCHANGED <<store, toggl, args, config, sendgrid, external_writes, fvars, uvars, cvars, pvars>>


-----------------------------------------------------------------------------
(* formatter.py checked as pure functions over bounded inputs.             *)

\* '2025-4-9 Wed (2.5h): a. b.'
LineAB ==
    <<"2","0","2","5","-","4","-","9"," ","W","e","d"," ","(","2",".","5","h",")",":"," ","a","."," ","b",".">>

\* '2025-4-9 Wed (3.0h): b. c.'
LineBC ==
    <<"2","0","2","5","-","4","-","9"," ","W","e","d"," ","(","3",".","0","h",")",":"," ","b","."," ","c",".">>

\* '2025-4-9 Wed (2.0h+): b.'
LineRunning ==
    <<"2","0","2","5","-","4","-","9"," ","W","e","d"," ","(","2",".","0","h","+",")",":"," ","b",".">>

\* '2025-4-8 Tue (7.25h): c. c.'
LineOtherDay ==
    <<"2","0","2","5","-","4","-","8"," ","T","u","e"," ","(","7",".","2","5","h",")",":"," ","c","."," ","c",".">>

\* '2025-04-09 Wed (2h): a'
LinePadded ==
    <<"2","0","2","5","-","0","4","-","0","9"," ","W","e","d"," ","(","2","h",")",":"," ","a">>

\* 'Invalid entry'
LineInvalid ==
    <<"I","n","v","a","l","i","d"," ","e","n","t","r","y">>

\* '2025-2-30 Sun (1.0h): a.'
LineBadDate ==
    <<"2","0","2","5","-","2","-","3","0"," ","S","u","n"," ","(","1",".","0","h",")",":"," ","a",".">>

\* '0999-1-2 Wed (1.0h): a.'
LineOldYear ==
    <<"0","9","9","9","-","1","-","2"," ","W","e","d"," ","(","1",".","0","h",")",":"," ","a",".">>

\* the year in Arabic-Indic digits, hours with three decimals:
\* '\u0662\u0660\u0662\u0665-4-9 Wed (2.555h): a.'
LineArabicYear ==
    <<"U+0662","U+0660","U+0662","U+0665","-","4","-","9"," ","W","e","d"," ","(","2",".","5","5","5","h",")",":"," ","a",".">>

MergeLines ==
    {LineAB, LineBC, LineRunning, LineOtherDay, LinePadded, LineInvalid,
     LineBadDate, LineOldYear, LineArabicYear, <<>>}

\* a header with nothing after the colon: '2025-4-9 Wed (1.0h):'
LineNoText ==
    <<"2","0","2","5","-","4","-","9"," ","W","e","d"," ","(","1",".","0",
     "h",")",":">>

\* a month that does not exist: '2025-13-1 Mon (1.h): a'
LineMonth13 ==
    <<"2","0","2","5","-","1","3","-","1"," ","M","o","n"," ","(","1",".",
     "h",")",":"," ","a">>

\* the year 0: '0000-1-1 Mon (1h+): a'
LineYearZero ==
    <<"0","0","0","0","-","1","-","1"," ","M","o","n"," ","(","1","h","+",
     ")",":"," ","a">>

\* a line followed by a second line: '2025-4-9 Wed (1.0h): a.\nb'
LineTwoLines ==
    <<"2","0","2","5","-","4","-","9"," ","W","e","d"," ","(","1",".","0",
     "h",")",":"," ","a",".","\n","b">>

\* The strings parse_entry is called with on its own
ParseLines ==
    MergeLines \cup {LineNoText, LineMonth13, LineYearZero, LineTwoLines}

FmtDates ==
    { [y |-> 2025, m |-> 4, d |-> 9], [y |-> 2025, m |-> 12, d |-> 31],
      [y |-> 2024, m |-> 2, d |-> 29], [y |-> 2025, m |-> 10, d |-> 5],
      [y |-> 999, m |-> 1, d |-> 2] }

\* Hours with one decimal, in tenths: 0.0, 1.0, 2.5, 10.5
FmtTenths == {0, 10, 25, 105}

FmtDescriptions ==
    { <<"a">>, <<"b", ".">>, <<" ", "a", " ">>, <<"v", "1", ".", "2">>,
      <<"a", NL, "b">>, <<>> }

\* The longest list of descriptions given to format_entry
MaxDescs == 2

RECURSIVE SeqsUpTo(_, _)
SeqsUpTo(S, n) ==
    IF n = 0 THEN {<<>>}
    ELSE LET shorter == SeqsUpTo(S, n - 1)
         IN  shorter \cup {Append(q, x) : q \in {r \in shorter : Len(r) = n - 1}, x \in S}

FmtInputs ==
    [date : FmtDates,
     hours : {Decimal(t, 1) : t \in FmtTenths},
     descriptions : SeqsUpTo(FmtDescriptions, MaxDescs),
     has_running_entry : BOOLEAN]

NoFmtInput ==
    [date |-> NoDate, hours |-> FloatZero, descriptions |-> <<>>, has_running_entry |-> FALSE]

NoMergeInput == [existing_entry |-> <<>>, new_entry |-> <<>>]

FormatterIdle ==
    /\ fpc = "off"
    /\ fe_in = NoFmtInput
    /\ fe_line = <<>>
    /\ fe_parsed = None
    /\ mg_in = NoMergeInput
    /\ mg_out = <<>>

FormatterInit ==
    /\ fe_parsed = None
    /\ mg_out = <<>>
    /\ \/ /\ fpc = "format"
          /\ fe_in \in FmtInputs
          /\ fe_line = <<>>
          /\ mg_in = NoMergeInput
       \/ /\ fpc = "line"
          /\ fe_in = NoFmtInput
          /\ fe_line \in ParseLines
          /\ mg_in = NoMergeInput
       \/ /\ fpc = "merge"
          /\ fe_in = NoFmtInput
          /\ fe_line = <<>>
          /\ mg_in \in [existing_entry : MergeLines, new_entry : MergeLines]

\* formatter.py 27-62
Format ==
    /\ fpc = "format"
    /\ fe_line' = format_entry(fe_in.date, fe_in.hours, fe_in.descriptions,
                               fe_in.has_running_entry)
    /\ fpc' = "formatted"
    /\ UNCHANGED <<fe_in, fe_parsed, mg_in, mg_out, svars, uvars, cvars, pvars>>

\* formatter.py 64-107, called with a formatted line or with a string of
\* any shape
Parse ==
    /\ fpc \in {"formatted", "line"}
    /\ fe_parsed' = parse_entry(fe_line)
    /\ fpc' = IF fpc = "formatted" THEN "parsed" ELSE "line_parsed"
    /\ UNCHANGED <<fe_in, fe_line, mg_in, mg_out, svars, uvars, cvars, pvars>>

\* formatter.py 109-145
Merge ==
    /\ fpc = "merge"
    /\ mg_out' = merge_entries(mg_in.existing_entry, mg_in.new_entry)
    /\ fpc' = "merged"
    /\ UNCHANGED <<fe_in, fe_line, fe_parsed, mg_in, svars, uvars, cvars, pvars>>

SyncIdle ==
    /\ store = [content |-> <<>>, sha |-> 0]
    /\ toggl = [entries |-> <<>>, current |-> NoCurrent]
    /\ args = [start_date |-> NoDate, end_date |-> NoDate]
    /\ config = NoSettings
    /\ sendgrid = "up"
    /\ run = 0
    /\ pc = "off"
    /\ start_date = NoDate
    /\ end_date = NoDate
    /\ worklog_content = <<>>
    /\ original_worklog_content = <<>>
    /\ sha = 0
    /\ all_entries = <<>>
    /\ current_date = NoDate
    /\ result = "pending"
    /\ external_writes = 0
    /\ log = <<>>
    /\ history = <<>>

-----------------------------------------------------------------------------
(* find_entry_for_date, the description filter and calculate_daily_hours   *)
(* checked as pure functions over bounded inputs.                          *)

\* the document of test_find_entry_for_date: '# Worklog\n        \n2025-4-9 Wed (1.5h): Task 1. Task 2.\n\n2025-4-8 Tue (2.0h+): Task 3.\n\n* * *\n\n2025-4-7 Mon (3.0h): Task 4.\n'
DocTest ==
    <<"#"," ","W","o","r","k","l","o","g","\n"," "," "," "," "," "," "," ",
     " ","\n","2","0","2","5","-","4","-","9"," ","W","e","d"," ","(","1",
     ".","5","h",")",":"," ","T","a","s","k"," ","1","."," ","T","a","s",
     "k"," ","2",".","\n","\n","2","0","2","5","-","4","-","8"," ","T","u",
     "e"," ","(","2",".","0","h","+",")",":"," ","T","a","s","k"," ","3",
     ".","\n","\n","*"," ","*"," ","*","\n","\n","2","0","2","5","-","4",
     "-","7"," ","M","o","n"," ","(","3",".","0","h",")",":"," ","T","a",
     "s","k"," ","4",".","\n">>

\* the 10th before the 1st of the month: '2025-4-10 Thu (0.5h): a.\n\n2025-4-1 Tue (2.0h): b.\n'
DocTenth ==
    <<"2","0","2","5","-","4","-","1","0"," ","T","h","u"," ","(","0",".",
     "5","h",")",":"," ","a",".","\n","\n","2","0","2","5","-","4","-","1",
     " ","T","u","e"," ","(","2",".","0","h",")",":"," ","b",".","\n">>

\* a second line, a bullet, and the same date again: '2025-4-9 Wed (1.0h): a.\nmore\n* x\n\n2025-4-9 Wed (2.0h): b.\n'
DocStar ==
    <<"2","0","2","5","-","4","-","9"," ","W","e","d"," ","(","1",".","0",
     "h",")",":"," ","a",".","\n","m","o","r","e","\n","*"," ","x","\n",
     "\n","2","0","2","5","-","4","-","9"," ","W","e","d"," ","(","2",".",
     "0","h",")",":"," ","b",".","\n">>

\* a header quoted inside a description: '2025-4-9 Wed (1.0h): see 2025-4-8 Tue (2h): x.\n\n2025-4-8 Tue (2.0h): b.\n'
DocQuoted ==
    <<"2","0","2","5","-","4","-","9"," ","W","e","d"," ","(","1",".","0",
     "h",")",":"," ","s","e","e"," ","2","0","2","5","-","4","-","8"," ",
     "T","u","e"," ","(","2","h",")",":"," ","x",".","\n","\n","2","0","2",
     "5","-","4","-","8"," ","T","u","e"," ","(","2",".","0","h",")",":",
     " ","b",".","\n">>

FindDocs == InitialDocs \cup {DocTest, DocTenth, DocStar, DocQuoted}

FindDates == {Day(1), Day(6), Day(7), Day(8), Day(9), Day(10)}

\* a description: 'abcdefg'
DescG ==
    <<"a","b","c","d","e","f","g">>

\* ratio 12/14 = 0.857 to DescG: 'abcdefh'
DescH ==
    <<"a","b","c","d","e","f","h">>

\* ratio 0.857 to DescH, 0.714 to DescG: 'abcdxfh'
DescX ==
    <<"a","b","c","d","x","f","h">>

\* a description: 'abcde'
DescE ==
    <<"a","b","c","d","e">>

\* ratio 8/10 = 0.80 to DescE: 'abcdf'
DescF ==
    <<"a","b","c","d","f">>

\* a description of 17 characters: 'abcdefghijklmnopq'
DescQ ==
    <<"a","b","c","d","e","f","g","h","i","j","k","l","m","n","o","p","q">>

\* ratio 34/40 = 0.85 to DescQ: 'abcdefghijklmnopqrstuvw'
DescW ==
    <<"a","b","c","d","e","f","g","h","i","j","k","l","m","n","o","p","q",
     "r","s","t","u","v","w">>

DedupDescs == {DescG, DescH, DescX, DescE, DescF, DescQ, DescW}

\* The longest list of descriptions of a day
MaxDayDescs == 3

\* The time entries of a day: completed ones of 3600, 1800, 900 and 200
\* seconds, one with duration 0 (or none), and running ones (duration < 0)
\* started 1800 and 180 seconds ago
HoursEntries ==
    {Entry(1, Day(9), 3600, 0, <<"a">>), Entry(2, Day(9), 1800, 0, <<"b">>),
     Entry(3, Day(9), 900, 0, <<"c">>), Entry(4, Day(9), 200, 0, <<"d">>),
     Entry(5, Day(9), 0, 0, <<"e">>), Entry(6, Day(9), -1, 1800, <<"f">>),
     Entry(7, Day(9), -1, 180, <<"g">>)}

\* The longest list of time entries of a day
MaxDayEntries == 3

NoFindInput == [content |-> <<>>, date |-> NoDate]

NotFound == [found |-> FALSE]

UnitsIdle ==
    /\ upc = "off"
    /\ find_in = NoFindInput
    /\ find_out = NotFound
    /\ descs_in = <<>>
    /\ descs_out = <<>>
    /\ entries_in = <<>>
    /\ hours_out = 0
    /\ new_entry_in = <<>>
    /\ updated_content = <<>>

\* A line for the date as the caller of update_or_create_entry passes it:
\* '2025-4-9 Wed (9.5h): n.'
UpdateLine(date) ==
    DateStr(date) \o <<" ">> \o DayAbbr[Weekday(date) + 1]
    \o <<" ", "(", "9", ".", "5", "h", ")", ":", " ", "n", ".">>

UnitsInit ==
    /\ find_out = NotFound
    /\ descs_out = <<>>
    /\ hours_out = 0
    /\ updated_content = <<>>
    /\ \/ /\ upc = "find"
          /\ find_in \in [content : FindDocs, date : FindDates]
          /\ descs_in = <<>>
          /\ entries_in = <<>>
          /\ new_entry_in = <<>>
       \/ /\ upc = "update"
          /\ find_in \in [content : FindDocs, date : FindDates]
          /\ descs_in = <<>>
          /\ entries_in = <<>>
          /\ new_entry_in = UpdateLine(find_in.date)
       \/ /\ upc = "dedup"
          /\ find_in = NoFindInput
          /\ descs_in \in SeqsUpTo(DedupDescs, MaxDayDescs)
          /\ entries_in = <<>>
          /\ new_entry_in = <<>>
       \/ /\ upc = "hours"
          /\ find_in = NoFindInput
          /\ descs_in = <<>>
          /\ entries_in \in SeqsUpTo(HoursEntries, MaxDayEntries)
          /\ new_entry_in = <<>>

\* github.py 78-108
Find ==
    /\ upc = "find"
    /\ find_out' = find_entry_for_date(find_in.content, find_in.date)
    /\ upc' = "found"
    /\ UNCHANGED <<find_in, descs_in, descs_out, entries_in, hours_out, new_entry_in, updated_content, fvars, svars, cvars, pvars>>

\* github.py 110-148
Update ==
    /\ upc = "update"
    /\ updated_content' =
           update_or_create_entry(find_in.content, new_entry_in, find_in.date)
    /\ upc' = "updated"
    /\ UNCHANGED <<find_in, find_out, descs_in, descs_out, entries_in, hours_out,
                   new_entry_in, fvars, svars, cvars, pvars>>

\* sync.py 106-120
Dedup ==
    /\ upc = "dedup"
    /\ descs_out' = UniqueSimilar(descs_in, <<>>)
    /\ upc' = "deduped"
    /\ UNCHANGED <<find_in, find_out, descs_in, entries_in, hours_out, new_entry_in, updated_content, fvars, svars, cvars, pvars>>

\* toggl.py 302-330
Hours ==
    /\ upc = "hours"
    /\ hours_out' = calculate_daily_hours(entries_in)
    /\ upc' = "summed"
    /\ UNCHANGED <<find_in, find_out, descs_in, descs_out, entries_in, new_entry_in, updated_content, fvars, svars, cvars, pvars>>

-----------------------------------------------------------------------------
(* scheduler.py: start_scheduler.  The BackgroundScheduler runs its job in *)
(* a thread of its pool each time the interval trigger fires; the main     *)
(* thread runs the reconciler once itself and then sleeps.                 *)

\* How many minutes of the scheduler are followed
MaxTicks == 6

\* The longest interval configured
MaxInterval == 3

\* add_job is called without max_instances: the scheduler runs at most one
\* instance of the job at a time and skips a firing while one is running
MaxInstances == 1

SchedulerIdle ==
    /\ spc = "off"
    /\ sclock = 0
    /\ sync_interval_minutes = 0
    /\ next_run_time = 0
    /\ job_instances = 0
    /\ skipped = 0

SchedulerInit ==
    /\ spc = "init"
    /\ sclock = 0
    /\ sync_interval_minutes \in 1..MaxInterval
    /\ next_run_time = 0
    /\ job_instances = 0
    /\ skipped = 0

\* The scheduler's thread is running and takes the job when it is due
SchedulerRunning == spc \in {"started", "syncing", "sleeping"}

\* scheduler.py 25-41: add_job with the interval trigger, scheduler.start()
StartScheduler ==
    /\ spc = "init"
    /\ spc' = "started"
    /\ next_run_time' = sclock + sync_interval_minutes
    /\ UNCHANGED <<sclock, sync_interval_minutes, job_instances, skipped,
                   fvars, svars, uvars, pvars>>

\* scheduler.py 44: the main thread calls sync_toggl_to_github(config)
BeginImmediateRun ==
    /\ spc = "started"
    /\ spc' = "syncing"
    /\ UNCHANGED <<sclock, sync_interval_minutes, next_run_time, job_instances,
                   skipped, fvars, svars, uvars, pvars>>

\* scheduler.py 44: the call returns; 46-49: the main thread sleeps
EndImmediateRun ==
    /\ spc = "syncing"
    /\ spc' = "sleeping"
    /\ UNCHANGED <<sclock, sync_interval_minutes, next_run_time, job_instances,
                   skipped, fvars, svars, uvars, pvars>>

\* A minute passes.  The scheduler's thread wakes when the job is due, so
\* the clock does not pass next_run_time before the firing is handled.
Tick ==
    /\ SchedulerRunning
    /\ sclock < MaxTicks
    /\ sclock < next_run_time
    /\ sclock' = sclock + 1
    /\ UNCHANGED <<spc, sync_interval_minutes, next_run_time, job_instances,
                   skipped, fvars, svars, uvars, pvars>>

\* scheduler.py 28-35: the interval trigger fires.  The job is handed to
\* the thread pool, or skipped when MaxInstances of it are running.
FireJob ==
    /\ SchedulerRunning
    /\ sclock >= next_run_time
    /\ next_run_time' = next_run_time + sync_interval_minutes
    /\ IF job_instances < MaxInstances
       THEN job_instances' = job_instances + 1 /\ UNCHANGED skipped
       ELSE skipped' = skipped + 1 /\ UNCHANGED job_instances
    /\ UNCHANGED <<spc, sclock, sync_interval_minutes, fvars, svars, uvars, pvars>>

\* sync_toggl_to_github returns in the pool thread
EndJobRun ==
    /\ job_instances > 0
    /\ job_instances' = job_instances - 1
    /\ UNCHANGED <<spc, sclock, sync_interval_minutes, next_run_time, skipped,
                   fvars, svars, uvars, pvars>>

\* scheduler.py 50-51: KeyboardInterrupt or SystemExit during the sleep;
\* scheduler.shutdown() stops the firing and waits for the running job
Interrupt ==
    /\ spc = "sleeping"
    /\ spc' = "shutdown"
    /\ UNCHANGED <<sclock, sync_interval_minutes, next_run_time, job_instances,
                   skipped, fvars, svars, uvars, pvars>>

\* scheduler.py 51-55: shutdown() returns, start_scheduler returns
Shutdown ==
    /\ spc = "shutdown"
    /\ job_instances = 0
    /\ spc' = "stopped"
    /\ UNCHANGED <<sclock, sync_interval_minutes, next_run_time, job_instances,
                   skipped, fvars, svars, uvars, pvars>>

\* The executions of sync_toggl_to_github that have started and not returned
InFlight == (IF spc = "syncing" THEN 1 ELSE 0) + job_instances

-----------------------------------------------------------------------------
(* api/toggl.py: get_time_entries.  The server holds finitely many time    *)
(* entries and answers a request for a range with a chunk of them.         *)

\* A point in time as a day number, the seconds of that day and the
\* microseconds of that second
Instant(t) == <<Ordinal(t.date), t.secs, t.usec>>

\* a < b and a <= b for two points in time
Earlier(a, b) ==
    \/ a[1] < b[1]
    \/ a[1] = b[1] /\ a[2] < b[2]
    \/ a[1] = b[1] /\ a[2] = b[2] /\ a[3] < b[3]
NotLater(a, b) == a = b \/ Earlier(a, b)

\* An entry of the server: its id and its "start" (NoStart: the key is absent)
NoStart == At(NoDate, 1)

ServerEntry(id, start) == [id |-> id, start |-> start]

\* What servers hold, newest first
ServerHoldings ==
    { <<>>,
      <<ServerEntry(7, At(Day(9), 86399)), ServerEntry(8, At(Day(9), 1800))>>,
      <<ServerEntry(1, At(Day(9), 8 * 3600)), ServerEntry(2, At(Day(9), 7 * 3600))>>,
      <<ServerEntry(1, At(Day(9), 8 * 3600)), ServerEntry(2, At(Day(9), 7 * 3600)),
        ServerEntry(3, At(Day(8), 9 * 3600))>>,
      <<ServerEntry(1, At(Day(9), 8 * 3600)), ServerEntry(5, At(Day(9), 8 * 3600)),
        ServerEntry(3, At(Day(8), 9 * 3600)), ServerEntry(4, At(Day(6), 9 * 3600))>>,
      <<ServerEntry(3, At(Day(8), 9 * 3600)), ServerEntry(4, At(Day(6), 9 * 3600))>> }

\* The answer of test_get_time_entries: two entries without a "start"
TestHoldings == <<ServerEntry(1, NoStart), ServerEntry(2, NoStart)>>

\* The largest number of entries a server puts in one answer
MaxPage == 3

\* A server answers with the entries whose start lies in the requested
\* range, end included ("closed") or not ("open"), newest first, at most
\* page of them; or with the same list whatever is asked ("fixed", the
\* mocked requests.get of the tests)
Servers ==
    [entries : ServerHoldings, kind : {"open", "closed", "fixed"}, page : 1..MaxPage]
    \cup {[entries |-> TestHoldings, kind |-> "fixed", page |-> MaxPage]}

\* (start_date, end_date) of a call
RangeArgs ==
    { [start_date |-> Omitted, end_date |-> Omitted],
      [start_date |-> Combine(Day(8), TimeMin), end_date |-> Combine(Day(9), TimeMax)],
      [start_date |-> Combine(Day(9), TimeMin), end_date |-> Combine(Day(9), TimeMin)],
      [start_date |-> Combine(Day(6), TimeMin), end_date |-> Omitted],
      [start_date |-> Combine([y |-> 2024, m |-> 12, d |-> 31], TimeMin),
       end_date |-> Combine(Day(9), TimeMin)] }

\* The entries of the server that a request for the range asks for
InRange(entries, from, to, kind) ==
    IF kind = "fixed" THEN entries
    ELSE SelectSeq(entries,
             LAMBDA en : /\ NotLater(Instant(from), Instant(en.start))
                         /\ IF kind = "closed"
                            THEN NotLater(Instant(en.start), Instant(to))
                            ELSE Earlier(Instant(en.start), Instant(to)))

\* response.json() for a request of the range
Chunk(from, to) ==
    LET asked == InRange(server.entries, from, to, server.kind)
    IN  SubSeq(asked, 1, IF Len(asked) > server.page THEN server.page ELSE Len(asked))

\* An entry that counts as new whatever has been seen
AlwaysUnseen(entry, seen) == TRUE

\* toggl.py 85: entry["id"] not in seen_entry_ids
Unseen(entry, seen) == entry.id \notin seen

\* toggl.py 83-88: the loop over the chunk
RECURSIVE TakeUnseen(_, _)
TakeUnseen(chunk, acc) ==
    IF Len(chunk) = 0 THEN acc
    ELSE TakeUnseen(Tail(chunk),
             IF Unseen(Head(chunk), acc.seen_entry_ids)
             THEN [all_entries |-> Append(acc.all_entries, Head(chunk)),
                   seen_entry_ids |-> acc.seen_entry_ids \cup {Head(chunk).id},
                   new_entries_found_in_chunk |-> TRUE]
             ELSE acc)

\* toggl.py 46-47: ninety days before now
Cutoff == <<Ordinal(Now.date) - 90, Now.secs, Now.usec>>

\* No call of get_time_entries on its own, config.timezone one of zones
PagingIdleIn(zones) ==
    /\ ppc = "off"
    /\ timezone \in zones
    /\ server = [entries |-> <<>>, kind |-> "fixed", page |-> 0]
    /\ range_in = [start_date |-> Omitted, end_date |-> Omitted]
    /\ range_start = Omitted
    /\ current_end_date = Omitted
    /\ fetched_entries = <<>>
    /\ seen_entry_ids = {}
    /\ http = <<>>

PagingIdle == PagingIdleIn({DefaultTimezone})

PagingInit ==
    /\ ppc = "call"
    /\ timezone \in Timezones
    /\ server \in Servers
    /\ range_in \in RangeArgs
    /\ range_start = Omitted
    /\ current_end_date = Omitted
    /\ fetched_entries = <<>>
    /\ seen_entry_ids = {}
    /\ http = <<>>

\* toggl.py 40-55: the defaults, the hand-over of a start older than ninety
\* days to the Detailed Reports retrieval, the empty accumulators
BeginPaging ==
    /\ ppc = "call"
    /\ \E range \in {RequestedRange(range_in.start_date, range_in.end_date, timezone)} :
          /\ range_start' = range.from
          /\ current_end_date' = range.to
          /\ ppc' = IF Earlier(Instant(range.from), Cutoff)
                   THEN "reports" ELSE "request"
    /\ UNCHANGED <<timezone, server, range_in, fetched_entries, seen_entry_ids, http,
                   fvars, svars, uvars, cvars>>

\* How many requests of one call are followed
MaxRequests == 7

\* toggl.py 57-102: one iteration of the loop
RequestPage ==
    /\ ppc = "request"
    /\ Len(http) < MaxRequests
    /\ \E chunk \in {Chunk(range_start, current_end_date)} :
        \E acc \in {TakeUnseen(chunk, [all_entries |-> fetched_entries,
                                       seen_entry_ids |-> seen_entry_ids,
                                       new_entries_found_in_chunk |-> FALSE])} :
          /\ http' = Append(http, [from |-> range_start, to |-> current_end_date,
                                   ok |-> TRUE, chunk |-> chunk])
          /\ fetched_entries' = acc.all_entries
          /\ seen_entry_ids' = acc.seen_entry_ids
          /\ IF Len(chunk) = 0 \/ ~acc.new_entries_found_in_chunk
             THEN ppc' = "returned" /\ UNCHANGED current_end_date
             ELSE IF chunk[Len(chunk)].start = NoStart
             THEN \* oldest_entry_in_chunk["start"] raises KeyError
                  ppc' = "raised" /\ UNCHANGED current_end_date
             ELSE /\ current_end_date' = chunk[Len(chunk)].start
                  /\ ppc' = IF Earlier(Instant(chunk[Len(chunk)].start),
                                       Instant(range_start))
                            THEN "returned" ELSE "request"
    /\ UNCHANGED <<timezone, server, range_in, range_start, fvars, svars, uvars, cvars>>

\* toggl.py 77: the server answers with an error status, raise_for_status raises
RequestFails ==
    /\ ppc = "request"
    /\ Len(http) < MaxRequests
    /\ http' = Append(http, [from |-> range_start, to |-> current_end_date,
                             ok |-> FALSE, chunk |-> <<>>])
    /\ ppc' = "raised"
    /\ UNCHANGED <<timezone, server, range_in, range_start, current_end_date, fetched_entries,
                   seen_entry_ids, fvars, svars, uvars, cvars>>

\* The reconciler with the notification settings left out or SendGrid up
SyncInit == SyncStart(InitialDocs, DateArgs, {AllSettings, NoSettings}, {"up"})

\* The reconciler under every combination of the notification settings, with
\* SendGrid up or down
NotifyInit ==
    SyncStart({DocTitled, DocBadDates},
              {[start_date |-> Day(8), end_date |-> Day(9)],
               [start_date |-> Day(8), end_date |-> NoDate],
               [start_date |-> DateMin, end_date |-> DateMin]},
              Configs, {"up", "down"})

-----------------------------------------------------------------------------
(* Specifications                                                          *)

Init == SyncInit /\ FormatterIdle /\ UnitsIdle /\ SchedulerIdle /\ PagingIdle

Next ==
    \/ ReadDocument
    \/ ReadRaises
    \/ FetchEntries
    \/ FetchRaises
    \/ DayStep
    \/ DayRaises
    \/ FinishUnchanged
    \/ FinishWrite
    \/ ExternalWrite
    \/ NextRun

\* The reconciler, run MaxRuns times against the store
Spec == Init /\ [][Next]_vars

InitNotify ==
    NotifyInit /\ FormatterIdle /\ UnitsIdle /\ SchedulerIdle /\ PagingIdleIn(Timezones)

\* The same runs, over the notification settings
SpecNotify == InitNotify /\ [][Next]_vars

FormatterNext == Format \/ Parse \/ Merge

\* format_entry, parse_entry and merge_entries on their own
InitFormatter ==
    FormatterInit /\ SyncIdle /\ UnitsIdle /\ SchedulerIdle /\ PagingIdle

SpecFormatter == InitFormatter /\ [][FormatterNext]_vars

UnitsNext == Find \/ Update \/ Dedup \/ Hours

\* find_entry_for_date, the description filter and calculate_daily_hours on
\* their own
InitUnits ==
    UnitsInit /\ SyncIdle /\ FormatterIdle /\ SchedulerIdle /\ PagingIdle

SpecUnits == InitUnits /\ [][UnitsNext]_vars

SchedulerNext ==
    \/ StartScheduler
    \/ BeginImmediateRun
    \/ EndImmediateRun
    \/ Tick
    \/ FireJob
    \/ EndJobRun
    \/ Interrupt
    \/ Shutdown

\* start_scheduler on its own
InitScheduler ==
    SchedulerInit /\ SyncIdle /\ FormatterIdle /\ UnitsIdle /\ PagingIdle

SpecScheduler == InitScheduler /\ [][SchedulerNext]_vars

PagingNext == BeginPaging \/ RequestPage \/ RequestFails

\* get_time_entries on its own
InitPaging ==
    PagingInit /\ SyncIdle /\ FormatterIdle /\ UnitsIdle /\ SchedulerIdle

SpecPaging == InitPaging /\ [][PagingNext]_vars


-----------------------------------------------------------------------------
(* Properties of sync_toggl_to_github, stated over the log of the run in   *)
(* progress and the outcomes of the earlier runs.                          *)

LastRun == history[Len(history)]

\* The run has returned True, the run before it had too, and the other
\* writer stored during neither
SecondQuietRun ==
    /\ pc = "done"
    /\ result = "True"
    /\ Ops("external") = {}
    /\ Len(history) > 0
    /\ LastRun.result = "True"
    /\ ~LastRun.disturbed

\* C1: a second run over the same range with the same Toggl answers leaves
\* the stored document byte-identical to what the first run left.
C1_SecondRunIdentical ==
    SecondQuietRun => store.content = LastRun.content

\* C2: update_worklog is not called with a text byte-identical to the text
\* the run fetched, and a second run with no new data issues no write.
C2_WriteOnlyIfChanged ==
    /\ \A w \in Ops("write"), r \in Ops("read") : log[w].text # log[r].text
    /\ SecondQuietRun => Ops("write") = {}

\* The days from start_date to end_date
RangeDays ==
    {dt \in {Day(d) : d \in 1..30} :
        Ordinal(start_date) <= Ordinal(dt) /\ Ordinal(dt) <= Ordinal(end_date)}

\* The text the day loop has reached before log position w
TextBefore(w) ==
    LET earlier == {i \in Ops("day") \cup Ops("read") : i < w}
    IN  log[CHOOSE i \in earlier : \A j \in earlier : j <= i].text

\* C3: a run reads the document once, before any fetch of entries; it writes
\* at most once, after every day of the range has been processed, the
\* re-rendered text, with the sha its own read returned.
C3_ReadOnceWriteOnce ==
    /\ Cardinality(Ops("read")) <= 1
    /\ \A f \in Ops("fetch") : \E r \in Ops("read") : r < f
    /\ Cardinality(Ops("write")) <= 1
    /\ \A w \in Ops("write") :
           /\ \E r \in Ops("read") : r < w /\ log[w].n = log[r].n
           /\ \A d \in Ops("day") : d < w
           /\ {log[d].date : d \in Ops("day")} = RangeDays
           /\ log[w].text = Renormalize(TextBefore(w))

\* A run over two days has written, and the store took the write
C3_Witness ==
    /\ pc = "done"
    /\ Cardinality(Ops("day")) >= 2
    /\ \E w \in Ops("write") : log[w].flag /\ store.content = log[w].text

\* The other writer stored after the read of the run and before its write
Overtaken ==
    \E r \in Ops("read"), e \in Ops("external"), w \in Ops("write") : r < e /\ e < w

LastExternal == CHOOSE e \in Ops("external") : \A x \in Ops("external") : x <= e

\* C4: a write that follows a store of the other writer is rejected; the run
\* returns False after one read and one write, and the other writer's
\* content stays stored.
C4_NoSilentOverwrite ==
    Overtaken =>
        /\ \A w \in Ops("write") : ~log[w].flag
        /\ Cardinality(Ops("read")) = 1
        /\ Cardinality(Ops("write")) = 1
        /\ pc = "done"
        /\ result = "False"
        /\ store.content = log[LastExternal].text
        /\ store.sha = log[LastExternal].n

\* The run was overtaken with a text of its own to store
C4_Witness ==
    /\ Overtaken
    /\ \E w \in Ops("write") : log[w].text # store.content

Raised ==
    Ops("raise_dates") \cup Ops("raise_read") \cup Ops("raise_fetch")
    \cup Ops("raise_day")

\* C5: when the read, the fetch, or a step of a day raises, the run issues
\* no write, returns False, and leaves the store as it read it.
C5_AllOrNothing ==
    Raised # {} =>
        /\ Ops("write") = {}
        /\ pc = "done"
        /\ result = "False"
        /\ log[Len(log)].op = "return"
        /\ Ops("external") = {} =>
               \A r \in Ops("read") :
                   store.content = log[r].text /\ store.sha = log[r].n

\* A day of the range raised after an earlier day had changed the text
C5_Witness ==
    /\ pc = "done"
    /\ \E x \in Ops("raise_day"), d \in Ops("day"), r \in Ops("read") :
           d < x /\ log[d].text # log[r].text


-----------------------------------------------------------------------------
(* Properties of WorklogFormatter, under SpecFormatter.                    *)

ExistingParsed == parse_entry(mg_in.existing_entry)
NewParsed == parse_entry(mg_in.new_entry)

\* merge_entries has returned for two lines that parse
MergedParseable == fpc = "merged" /\ ExistingParsed.ok /\ NewParsed.ok

\* The larger of the hours of the two lines
LargerHours ==
    IF Less(ExistingParsed.hours, NewParsed.hours)
    THEN NewParsed.hours ELSE ExistingParsed.hours

\* What a rendered line shows between "(" and "h"
ShownHours(line) ==
    LET open == MinOf({k \in 1..Len(line) : line[k] = "("})
        h    == MinOf({k \in open..Len(line) : line[k] = "h"})
    IN  SubSeq(line, open + 1, h - 1)

\* C6: the line merged from two parseable lines shows the larger of their
\* hours, so never fewer hours than the existing line.
C6_MergeKeepsMaxHours ==
    MergedParseable => ShownHours(mg_out) = FloatRepr(LargerHours)

\* The new line carries fewer hours than the existing one, which are kept
C6_Witness ==
    /\ MergedParseable
    /\ Less(NewParsed.hours, ExistingParsed.hours)
    /\ ShownHours(mg_out) = FloatRepr(ExistingParsed.hours)

\* all without every element that occurs earlier in it
FirstOccurrences(all) ==
    LET keep == {i \in 1..Len(all) : \A j \in 1..(i - 1) : all[j] # all[i]}
        nth(k) == CHOOSE i \in keep : Cardinality({j \in keep : j <= i}) = k
    IN  [k \in 1..Cardinality(keep) |-> all[nth(k)]]

\* C7: merging two parseable lines renders the existing date, the larger
\* hours, the OR of the running flags, and the existing-then-new
\* descriptions without later exact duplicates.
C7_MergeIsFormatOfUnion ==
    MergedParseable =>
        mg_out = format_entry(
                     ExistingParsed.date,
                     LargerHours,
                     FirstOccurrences(ExistingParsed.descriptions
                                      \o NewParsed.descriptions),
                     ExistingParsed.has_running_entry \/ NewParsed.has_running_entry)

\* A description of the new line was already in the existing line, and
\* another one was not
C7_Witness ==
    /\ MergedParseable
    /\ \E i \in 1..Len(NewParsed.descriptions) :
           \E j \in 1..Len(ExistingParsed.descriptions) :
               NewParsed.descriptions[i] = ExistingParsed.descriptions[j]
    /\ \E i \in 1..Len(NewParsed.descriptions) :
           \A j \in 1..Len(ExistingParsed.descriptions) :
               NewParsed.descriptions[i] # ExistingParsed.descriptions[j]

\* C8: when a side does not parse, merge_entries returns the new line as it
\* was given.
C8_UnparseableKeepsNew ==
    (fpc = "merged" /\ (~ExistingParsed.ok \/ ~NewParsed.ok)) =>
        mg_out = mg_in.new_entry

\* The existing line does not parse, the new one does and is returned
C8_Witness ==
    /\ fpc = "merged"
    /\ ~ExistingParsed.ok
    /\ NewParsed.ok
    /\ mg_out = mg_in.new_entry
    /\ mg_out # mg_in.existing_entry

\* The day of the week by Zeller's congruence: 0 is Saturday
Zeller(date) ==
    LET mm == IF date.m < 3 THEN date.m + 12 ELSE date.m
        yy == IF date.m < 3 THEN date.y - 1 ELSE date.y
    IN  (date.d + ((13 * (mm + 1)) \div 5) + (yy % 100) + ((yy % 100) \div 4)
         + ((yy \div 100) \div 4) + 5 * (yy \div 100)) % 7

EnglishDay ==
    << <<"S","a","t","u","r","d","a","y">>, <<"S","u","n","d","a","y">>,
       <<"M","o","n","d","a","y">>, <<"T","u","e","s","d","a","y">>,
       <<"W","e","d","n","e","s","d","a","y">>, <<"T","h","u","r","s","d","a","y">>,
       <<"F","r","i","d","a","y">> >>

\* The descriptions joined by ". ", closed by one "." unless empty or closed
ExpectedText(descriptions) ==
    LET joined == [k \in 1..Len(descriptions) |->
                      IF k = 1 THEN descriptions[k]
                      ELSE <<".", " ">> \o descriptions[k]]
        flat[k \in 0..Len(descriptions)] ==
            IF k = 0 THEN <<>> ELSE flat[k - 1] \o joined[k]
        text == flat[Len(descriptions)]
    IN  IF text # <<>> /\ text[Len(text)] # "." THEN Append(text, ".") ELSE text

\* C9: format_entry renders "<y>-<m>-<d> <Day> (<hours>h[+]): <text>", month
\* and day unpadded, Day the first three letters of the English weekday.
C9_FormatExact ==
    fpc \in {"formatted", "parsed"} =>
        fe_line = IntToStr(fe_in.date.y) \o <<"-">> \o IntToStr(fe_in.date.m)
                  \o <<"-">> \o IntToStr(fe_in.date.d) \o <<" ">>
                  \o SubSeq(EnglishDay[Zeller(fe_in.date) + 1], 1, 3)
                  \o <<" ", "(">> \o FloatRepr(fe_in.hours) \o <<"h">>
                  \o (IF fe_in.has_running_entry THEN <<"+">> ELSE <<>>)
                  \o <<")", ":", " ">> \o ExpectedText(fe_in.descriptions)

\* A running day in a one-digit month with two descriptions, the last of
\* them closed by a period
C9_Witness ==
    /\ fpc = "formatted"
    /\ fe_in.date.m < 10
    /\ fe_in.has_running_entry
    /\ Len(fe_in.descriptions) = 2
    /\ fe_in.descriptions[2] = <<"b", ".">>
    /\ fe_line[Len(fe_line)] = "."
    /\ fe_line[Len(fe_line) - 1] = "b"

\* The descriptions with each one split at its periods, the pieces trimmed
\* and the empty ones dropped
NormalizedDescriptions(descriptions) ==
    LET pieces[k \in 0..Len(descriptions)] ==
            IF k = 0 THEN <<>>
            ELSE pieces[k - 1] \o StripNonEmpty(SplitOn(descriptions[k], "."))
    IN  pieces[Len(descriptions)]

\* C10: parsing a line format_entry rendered gives back the date, the hours,
\* the running flag, and the descriptions up to trimming and periods.
C10_RoundTrip ==
    fpc = "parsed" =>
        /\ fe_parsed.ok
        /\ fe_parsed.date = fe_in.date
        /\ fe_parsed.hours = fe_in.hours
        /\ fe_parsed.has_running_entry = fe_in.has_running_entry
        /\ fe_parsed.descriptions = NormalizedDescriptions(fe_in.descriptions)


\* The line does not match the grammar of parse_entry, or its date
\* components are not a calendar date
Unparseable(line) ==
    LET match == EntryMatch(line)
    IN  \/ ~match.ok
        \/ ~ValidDate(StrToInt(match.year), StrToInt(match.month), StrToInt(match.day))

\* C11: parse_entry is total on strings: no exception leaves it, and for a
\* string that does not match the line grammar or whose date components are
\* not a calendar date it returns None.
C11_ParseTotal ==
    fpc = "line_parsed" =>
        /\ fe_parsed = None \/ fe_parsed.ok
        /\ Unparseable(fe_line) <=> fe_parsed = None

\* An impossible date has been given to parse_entry and None came back
C11_Witness ==
    /\ fpc = "line_parsed"
    /\ fe_line = LineBadDate
    /\ EntryMatch(fe_line).ok
    /\ fe_parsed = None


-----------------------------------------------------------------------------
(* Properties of find_entry_for_date                                       *)

\* An entry header for the date starts at position k of the text
HeaderFor(content, k, date) ==
    /\ StartsAt(content, k, DateStr(date))
    /\ HeaderTail(content, k + Len(DateStr(date))) # 0

\* The positions of the text at which a blank line or a line starting with
\* "*" follows
Breaks(content) ==
    {k \in 1..Len(content) :
        StartsAt(content, k, <<NL, NL>>) \/ StartsAt(content, k, <<NL, "*">>)}

\* C12: find_entry_for_date returns the first entry whose header date is
\* the requested date, with a span that starts at the entry's date and ends
\* before the next blank line, the next line starting with "*", or the end
\* of the text; it returns the not-found result when no entry has that date.
C12_FindExact ==
    upc = "found" =>
        LET content == find_in.content
            heads == {k \in 1..Len(content) : HeaderFor(content, k, find_in.date)}
        IN  IF heads = {} THEN ~find_out.found
            ELSE /\ find_out.found
                 /\ find_out.start_index = MinOf(heads)
                 /\ find_out.entry = SubSeq(content, find_out.start_index,
                                            find_out.end_index - 1)
                 /\ find_out.end_index \in Breaks(content) \cup {Len(content) + 1}
                 /\ \A k \in Breaks(content) :
                        ~(find_out.start_index <= k /\ k < find_out.end_index)

-----------------------------------------------------------------------------
(* Properties of the description filter                                    *)

\* descs_in restricted to the positions in K, in order
RECURSIVE Restrict(_, _, _)
Restrict(descs, K, i) ==
    IF i > Len(descs) THEN <<>>
    ELSE (IF i \in K THEN <<descs[i]>> ELSE <<>>) \o Restrict(descs, K, i + 1)

\* The similarity ratio of two descriptions is greater than 0.85
RatioAbove(a, b) ==
    2 * MatchCount(a, 1, Len(a), b, 1, Len(b)) * 100 > 85 * (Len(a) + Len(b))

\* K holds the positions kept by a scan in order that drops a description
\* iff it is too close to one kept before it
KeptPositions(descs, K) ==
    \A i \in 1..Len(descs) :
        i \in K <=> ~\E j \in K : j < i /\ RatioAbove(descs[i], descs[j])

\* C13: the filter keeps the order, drops a description iff its ratio to a
\* description accepted before it is greater than 0.85, and keeps the first;
\* a pair with ratio 0.857 gives one description, a pair with ratio 0.80 or
\* exactly 0.85 gives both.
C13_DedupThreshold ==
    upc = "deduped" =>
        /\ \E K \in SUBSET (1..Len(descs_in)) :
              /\ KeptPositions(descs_in, K)
              /\ descs_out = Restrict(descs_in, K, 1)
        /\ Len(descs_in) > 0 => Len(descs_out) > 0 /\ descs_out[1] = descs_in[1]
        /\ descs_in = <<DescG, DescH>> => descs_out = <<DescG>>
        /\ descs_in = <<DescE, DescF>> => descs_out = <<DescE, DescF>>
        /\ descs_in = <<DescQ, DescW>> => descs_out = <<DescQ, DescW>>
        /\ descs_in = <<DescW, DescQ>> => descs_out = <<DescW, DescQ>>

\* A description close to a dropped one but not to a kept one has been kept
C13_Witness ==
    /\ upc = "deduped"
    /\ descs_in = <<DescG, DescH, DescX>>
    /\ descs_out = <<DescG, DescX>>

-----------------------------------------------------------------------------
(* Properties of calculate_daily_hours                                     *)

\* What one entry adds to the seconds of the day
Contribution(e) ==
    IF e.duration > 0 THEN e.duration
    ELSE IF e.duration < 0 THEN e.elapsed
    ELSE 0

RECURSIVE SumOf(_)
SumOf(entries) ==
    IF Len(entries) = 0 THEN 0
    ELSE Contribution(entries[1]) + SumOf(Tail(entries))

\* The float in tenths, anything after the first decimal cut off
Tenths(v) ==
    IF v = FloatZero \/ v.decpt < 0 THEN 0
    ELSE StrToInt(DigitText([k \in 1..(v.decpt + 1) |->
                                IF k <= Len(v.digits) THEN v.digits[k] ELSE 0]))

\* C19: calculate_daily_hours returns the seconds of the entries (the
\* duration of a completed entry, now - start of a running one, nothing for
\* duration 0 or none) divided by 3600 and rounded to one decimal: a value
\* with one decimal at most 0.05 h away from the sum; 0.0 for an empty list,
\* 1.5 for 3600 s + 1800 s.
C19_DailyHours ==
    upc = "summed" =>
        LET t == Tenths(hours_out)
            diff == t * 360 - SumOf(entries_in)
        IN  /\ hours_out = Decimal(t, 1)
            /\ diff <= 180 /\ diff >= 0 - 180
            /\ entries_in = <<>> => hours_out = FloatZero
            /\ (Len(entries_in) = 2 /\ entries_in[1].duration = 3600
                    /\ entries_in[2].duration = 1800) => t = 15

\* A completed, a running and an empty entry have been summed: 3600 s and
\* 1800 s elapsed give 1.5
C19_Witness ==
    /\ upc = "summed"
    /\ Len(entries_in) = 3
    /\ entries_in[1].duration = 3600
    /\ entries_in[2].duration < 0 /\ entries_in[2].elapsed = 1800
    /\ entries_in[3].duration = 0
    /\ hours_out = Decimal(15, 1)

-----------------------------------------------------------------------------
(* Properties of the documents the reconciler writes                       *)

\* The texts given to update_worklog by the run in progress
Written == {log[w].text : w \in Ops("write")}

\* The positions of a text at which an entry starts: a header at the start
\* of a line
Headers(text) ==
    {k \in 1..Len(text) : LineStart(text, k) /\ GenericHeaderEnd(text, k) # 0}

\* Pairs of entry starts with no entry start between them
Consecutive(text) ==
    LET heads == Headers(text)
    IN  {pr \in heads \X heads :
            /\ pr[1] < pr[2]
            /\ ~\E k \in heads : pr[1] < k /\ k < pr[2]}

\* The date of the entry that starts at k, as a day number; 0 when its
\* date text is not a calendar date
DateAt(text, k) ==
    LET y2 == k + 4
        m2 == SkipUpTo(text, y2 + 1, Digit, 2)
        d2 == SkipUpTo(text, m2 + 1, Digit, 2)
        year  == StrToInt(SubSeq(text, k, y2 - 1))
        month == StrToInt(SubSeq(text, y2 + 1, m2 - 1))
        day   == StrToInt(SubSeq(text, m2 + 1, d2 - 1))
    IN  IF ValidDate(year, month, day)
        THEN Ordinal([y |-> year, m |-> month, d |-> day])
        ELSE 0

\* The first day (Monday) of the week of a day number; day 1 is a Monday
WeekStart(ordinal) == ordinal - ((ordinal - 1) % 7)

RuleBlock == <<NL, NL, "-", "-", "-", NL, NL>>

\* The text from the entry at p up to the entry at h ends with a rule block
RuleBetween(text, p, h) ==
    /\ StartsAt(text, h - 7, RuleBlock)
    /\ h - 8 >= p
    /\ text[h - 8] # NL

\* ... ends with exactly one blank line and no rule
BlankBetween(text, p, h) ==
    /\ StartsAt(text, h - 2, <<NL, NL>>)
    /\ h - 3 >= p
    /\ text[h - 3] # NL
    /\ ~StartsAt(text, h - 6, <<NL, "-", "-", "-", NL, NL>>)

\* A line of the text before position h is a rule
RuleBefore(text, h) ==
    \E k \in 1..(h - 1) : LineStart(text, k) /\ RuleEndAt(text, k) # 0

\* C14: in every written document two consecutive entries with valid dates
\* are separated by a rule block (blank line, "---", blank line) iff the
\* Mondays of their weeks differ and by exactly one blank line otherwise,
\* and no separator precedes the first entry.
C14_WeekSeparators ==
    \A text \in Written :
        /\ \A pr \in Consecutive(text) :
              (DateAt(text, pr[1]) # 0 /\ DateAt(text, pr[2]) # 0) =>
                  IF WeekStart(DateAt(text, pr[1])) # WeekStart(DateAt(text, pr[2]))
                  THEN RuleBetween(text, pr[1], pr[2])
                  ELSE BlankBetween(text, pr[1], pr[2])
        /\ \A h \in Headers(text) :
              (\A k \in Headers(text) : h <= k) => ~RuleBefore(text, h)

\* The seconds tracked on a date are fewer than 0.05 h, so the hours of the
\* date round to 0.0
ZeroDay(date) == 20 * TotalSeconds(EntriesForDay(all_entries, date)) < 3600

\* C15: processing a day whose hours round to 0.0 leaves the in-memory text
\* as it was (no line added, a stale line of that date not removed, no line
\* of another date altered); a run whose days all have 0.0 hours issues no
\* write.
C15_ZeroDayOmitted ==
    /\ \A d \in Ops("day") : ZeroDay(log[d].date) => log[d].text = TextBefore(d)
    /\ (\A d \in Ops("day") : ZeroDay(log[d].date)) => Ops("write") = {}

\* A run has passed a day with 100 tracked seconds whose stale line is in
\* the document, and has returned True without a write
C15_Witness ==
    /\ pc = "done"
    /\ result = "True"
    /\ Ops("write") = {}
    /\ \E d \in Ops("day") :
           /\ ZeroDay(log[d].date)
           /\ Len(EntriesForDay(all_entries, log[d].date)) > 0
           /\ find_entry_for_date(log[d].text, log[d].date).found

\* No two entries of the text have the same calendar date
OnePerDate(text) ==
    \A h1, h2 \in Headers(text) :
        (DateAt(text, h1) # 0 /\ DateAt(text, h1) = DateAt(text, h2)) => h1 = h2

\* C16: when the fetched document has at most one entry per calendar date
\* (zero-padded dates included), every written document has at most one
\* entry per calendar date.
C16_OneLinePerDate ==
    \A w \in Ops("write"), r \in Ops("read") :
        OnePerDate(log[r].text) => OnePerDate(log[w].text)

\* The first line of the entry that starts at k, without the white space
\* around it
HeaderLine(text, k) == Strip(SubSeq(text, k, FindChar(text, k, NL) - 1))

\* Where the entry with the given first line starts in the text (0: nowhere)
PlaceOf(text, line) ==
    LET at == {k \in Headers(text) : HeaderLine(text, k) = line}
    IN  IF at = {} THEN 0 ELSE MinOf(at)

\* C17: in every written document the entries are in non-increasing order
\* of their dates, an entry whose date is not a calendar date comes after
\* every dated entry, entries with equal keys are in the order they had
\* before the sort, and the sort never raises.
C17_SortedOutput ==
    /\ Ops("raise_sort") = {}
    /\ \A w \in Ops("write") :
          LET text == log[w].text
              before == TextBefore(w)
          IN  /\ \A pr \in Consecutive(text) :
                    /\ DateAt(text, pr[1]) >= DateAt(text, pr[2])
                    /\ DateAt(text, pr[1]) = 0 => DateAt(text, pr[2]) = 0
              /\ \A h1, h2 \in Headers(text) :
                    (h1 < h2 /\ DateAt(text, h1) = DateAt(text, h2)) =>
                        /\ PlaceOf(before, HeaderLine(text, h1)) # 0
                        /\ PlaceOf(before, HeaderLine(text, h1))
                               <= PlaceOf(before, HeaderLine(text, h2))

\* The text begins with a title line
Titled(text) == StartsAt(text, 1, <<"#", " ">>)

\* The first line of the text, without its newline
FirstLine(text) == SubSeq(text, 1, FindChar(text, 1, NL) - 1)

\* C18: when the fetched document begins with a title line, with or without
\* a newline after it, every written document has that title as its first
\* line, then exactly one blank line, then the first entry; and every entry
\* inserted during the run is placed after the title.
C18_TitlePreserved ==
    \A r \in Ops("read") :
        Titled(log[r].text) =>
            LET title == FirstLine(log[r].text)
            IN  /\ \A w \in Ops("write") :
                      /\ StartsAt(log[w].text, 1, title \o <<NL, NL>>)
                      /\ Len(title) + 3 \in Headers(log[w].text)
                /\ \A d \in Ops("day") : StartsAt(log[d].text, 1, title)

\* The line of the text that begins at position k
LineAt(text, k) == SubSeq(text, k, FindChar(text, k, NL) - 1)

\* The line rendered for the day of log position d: the line of the text
\* after the step at which the entry of that date starts
RenderedLine(d) ==
    LineAt(log[d].text, find_entry_for_date(log[d].text, log[d].date).start_index)

\* What follows the colon of the header of a line
TextOf(line) == From(line, GenericHeaderEnd(line, 1))

Contains(s, part) == \E k \in 1..Len(s) : StartsAt(s, k, part)

\* An entry of the date has no description, an empty one, or white space only
HasBlankEntry(date) ==
    \E k \in 1..Len(all_entries) :
        all_entries[k].day = date /\ Len(Strip(all_entries[k].description)) = 0

\* C20: the line rendered for a processed day that has an entry with an
\* absent, empty or whitespace-only description contains the placeholder
\* "[REDACTED - to be updated soon]", and the description text of every
\* rendered line is non-empty.
C20_PlaceholderKept ==
    \A d \in Ops("day") :
        log[d].flag =>
            LET hit == find_entry_for_date(log[d].text, log[d].date)
                line == LineAt(log[d].text, hit.start_index)
            IN  /\ hit.found
                /\ GenericHeaderEnd(line, 1) # 0
                /\ Len(Strip(TextOf(line))) > 0
                /\ HasBlankEntry(log[d].date) => Contains(line, Redacted)

-----------------------------------------------------------------------------
(* Properties of the date defaults                                         *)

\* C21: an omitted start_date defaults to the start of the current day and
\* an omitted end_date to the end of the current day, each on its own: an
\* omitted date is no error, the entries are requested from the start of
\* today when the start is omitted and up to the end of today when the end
\* is omitted, and a run that succeeds has processed the days from the start
\* (or today) to the end (or today).
C21_DateDefaults ==
    /\ Ops("raise_dates") = {}
    /\ \A f \in Ops("fetch") :
          /\ args.start_date = NoDate => log[f].from = Combine(Today, TimeMin)
          /\ args.end_date = NoDate => log[f].to = Combine(Today, TimeMax)
    /\ (pc = "done" /\ result = "True") =>
          {log[d].date : d \in Ops("day")} =
              {dt \in {Day(d) : d \in 1..30} :
                  /\ Ordinal(ResolvedStart) <= Ordinal(dt)
                  /\ Ordinal(dt) <= Ordinal(ResolvedEnd)}

-----------------------------------------------------------------------------
(* Properties of start_scheduler                                           *)

\* C22: under start_scheduler at most one execution of sync_toggl_to_github
\* is in flight at any time: the immediate run and every interval-triggered
\* run return before the next one starts, whatever the run takes and
\* whatever the interval is.
C22_NoOverlap == InFlight <= 1

-----------------------------------------------------------------------------
(* Properties of get_time_entries                                          *)

\* Everything the server holds for the range of request i
FullAnswer(i) == InRange(server.entries, http[i].from, http[i].to, server.kind)

\* The first answer holds every entry of the requested range
FirstComplete ==
    /\ Len(http) >= 1
    /\ http[1].ok
    /\ http[1].chunk = FullAnswer(1)

\* C23: when the first answer of the server holds every entry of the
\* requested range, get_time_entries sends exactly one request and returns
\* exactly the entries of that answer, in its order.
C23_SingleRequest ==
    FirstComplete =>
        /\ Len(http) = 1
        /\ ppc # "raised"
        /\ ppc = "returned" => fetched_entries = http[1].chunk

\* The ids of the entries the server holds
ServerIds == {server.entries[k].id : k \in 1..Len(server.entries)}

\* The ids of answer i
IdsOf(i) == {http[i].chunk[k].id : k \in 1..Len(http[i].chunk)}

\* The ids of answer i that no earlier answer had
NewIds(i) == IdsOf(i) \ UNION {IdsOf(j) : j \in 1..(i - 1)}

\* The start of the last entry of answer i is before the start of the range
EndsBeforeStart(i) ==
    LET chunk == http[i].chunk
    IN  /\ Len(chunk) > 0
        /\ chunk[Len(chunk)].start # NoStart
        /\ Earlier(Instant(chunk[Len(chunk)].start), Instant(range_start))

\* C28: the paging loop ends after finitely many requests: a call sends at
\* most one request more than the server holds entry ids, every iteration
\* after which the loop goes on has added an id not seen before, and the
\* loop has returned only on an empty answer, an answer without an unseen
\* id, or a next window end before the start of the range.
C28_PagingTerminates ==
    /\ Len(http) <= Cardinality(ServerIds) + 1
    /\ Len(http) < MaxRequests
    /\ \A i \in 1..Len(http) :
          (i < Len(http) \/ ppc = "request") => NewIds(i) # {}
    /\ ppc = "returned" =>
          \/ http[Len(http)].chunk = <<>>
          \/ NewIds(Len(http)) = {}
          \/ EndsBeforeStart(Len(http))

\* A call over a server that hands out one entry at a time has returned
\* after four requests with the three entries of the range
C28_Witness ==
    /\ ppc = "returned"
    /\ Len(http) = 4
    /\ Len(fetched_entries) = 3
    /\ \A i \in 1..3 : Cardinality(NewIds(i)) = 1
    /\ NewIds(4) = {}


\* Every exception that reaches the handler of the run in progress
Failures == Raised \cup Ops("raise_sort") \cup Ops("raise_write")

\* C24: the notification is sent only in a run that failed and only with
\* sendgrid_api_key, notification_email_from and notification_email_to all
\* set, at most once, after the exception; a run that notifies returns False
\* whether or not SendGrid took the message, and a run that returns True or
\* skips the write sends none.
C24_Notification ==
    /\ \A n \in Ops("notify") :
          /\ config = AllSettings
          /\ \E r \in Failures : r < n
          /\ pc = "done"
          /\ result = "False"
          /\ log[Len(log)].op = "return"
          /\ ~log[Len(log)].flag
    /\ Cardinality(Ops("notify")) <= 1
    /\ (pc = "done" /\ Failures # {} /\ config = AllSettings) =>
          Ops("notify") # {}

C24_Witness ==
    /\ pc = "done"
    /\ result = "False"
    /\ sendgrid = "down"
    /\ \E n \in Ops("notify") : ~log[n].flag


\* The end of the entry that starts at k: the next blank line, the next line
\* starting with "*", or the end of the text
EntryEnd(content, k) ==
    MinOf({b \in Breaks(content) : b >= k} \cup {Len(content) + 1})

NewlineRuns == {<<>>, <<NL>>, <<NL, NL>>}

\* The text with new_entry put between its first k characters and the rest,
\* with newlines around it
InsertedAt(content, k, new_entry) ==
    {SubSeq(content, 1, k) \o before \o new_entry \o after \o From(content, k + 1) :
        before \in NewlineRuns, after \in NewlineRuns}

\* C25: update_or_create_entry returns a text that contains new_entry.  With
\* an entry for the date in the text, the result is the text with that entry
\* replaced by new_entry; with none, it is the text with new_entry put in
\* after the title line (if the text begins with one) and before every
\* entry, and nothing else changed.
C25_LocateOrInsert ==
    upc = "updated" =>
        LET content == find_in.content
            heads == {k \in 1..Len(content) : HeaderFor(content, k, find_in.date)}
        IN  /\ Contains(updated_content, new_entry_in)
            /\ IF heads # {}
               THEN updated_content =
                        Splice(content, MinOf(heads),
                               EntryEnd(content, MinOf(heads)), new_entry_in)
               ELSE \E k \in 0..Len(content) :
                        /\ updated_content \in InsertedAt(content, k, new_entry_in)
                        /\ Titled(content) => k >= Len(FirstLine(content))
                        /\ \A h \in Headers(content) : h > k


\* The entry of the text that starts at k, parsed
EntryHours(text, k) == parse_entry(LineAt(text, k))

\* The line shows as many hours as the earlier one, or more; a line that
\* does not parse shows fewer hours than any that does
NotFewer(line, earlier) ==
    ~earlier.ok \/ (line.ok /\ ~Less(line.hours, earlier.hours))

\* C26: a run never stores fewer hours for a date than the line of that date
\* showed in the document the run fetched.
C26_HoursNeverRegress ==
    \A r \in Ops("read") : \A w \in Ops("write") :
        log[w].flag =>
            \A k \in Headers(log[r].text) : \A j \in Headers(log[w].text) :
                (DateAt(log[r].text, k) # 0
                 /\ DateAt(log[r].text, k) = DateAt(log[w].text, j))
                    => NotFewer(EntryHours(log[w].text, j), EntryHours(log[r].text, k))


\* The lines of the text before its first entry that are neither blank, nor
\* a title, nor a horizontal rule, nor an entry line: notes, and lines made
\* opaque by an indentation or a bullet
OpaqueLines(text) ==
    LET first == MinOf(Headers(text) \cup {Len(text) + 1})
    IN  {line \in {LineAt(text, k) : k \in {p \in 1..(first - 1) : LineStart(text, p)}} :
            /\ Len(Strip(line)) > 0
            /\ ~StartsAt(line, 1, <<"#", " ">>)
            /\ Strip(line) # RuleMark
            /\ ~EntryMatch(line).ok}

\* C27: every opaque line of the fetched document is in every document the
\* run asks the store to take.
C27_OpaquePreserved ==
    \A r \in Ops("read") : \A w \in Ops("write") :
        \A line \in OpaqueLines(log[r].text) : Contains(log[w].text, line)


\* The entries of the text whose date is a calendar date outside the range
\* of the run: where they start
OutOfRange(text) ==
    {k \in Headers(text) :
        /\ DateAt(text, k) # 0
        /\ \/ DateAt(text, k) < Ordinal(start_date)
           \/ DateAt(text, k) > Ordinal(end_date)}

\* C29: the line of every entry of the fetched document whose date is outside
\* the range of the run is in every document the run asks the store to take.
C29_OutOfRangeUntouched ==
    \A r \in Ops("read") : \A w \in Ops("write") :
        \A k \in OutOfRange(log[r].text) :
            Contains(log[w].text, LineAt(log[r].text, k))


\* The line the run renders for the day of log position d
LineOfDay(d) ==
    NewEntry(log[d].date, EntriesForDay(all_entries, log[d].date), toggl.current)

\* C30: every document the run asks the store to take contains, for every
\* day of the range with tracked hours, the line the run rendered for it.
C30_ProcessedDaysRecorded ==
    \A w \in Ops("write") : \A d \in Ops("day") :
        log[d].flag => Contains(log[w].text, LineOfDay(d))

=============================================================================
